---- MODULE Spec2Model ----
(***************************************************************************)
(* Shopify -> Nautical Commerce synchronisation engine.                    *)
(*                                                                         *)
(* The target platform (Nautical) is modelled as the store the GraphQL     *)
(* mutations act on; the source platform (Shopify) as the listings the     *)
(* flows read.  Each flow invocation is one action (invocations do not     *)
(* overlap); withRetry is modelled step by step.                           *)
(***************************************************************************)
EXTENDS Integers, Sequences, FiniteSets, TLC

VARIABLES
    \* ---- product flows (productUpdateWebhook.ts, productImport.ts) ----
    nauticalProducts,   \* target product store, in listing order
    nextProductId,      \* next id the target assigns to a created product
    shopifyCatalog,     \* source product listing read by Product Import
    webhookCall,        \* what the last product webhook invocation did
    importRun,          \* what the last Product Import run did
    \* ---- order flow (orderSync.ts) ----
    nauticalOrders,     \* target order store, in listing order
    nextOrderId,        \* next id the target assigns to a created order
    shopifyOrders,      \* source listing of recent orders
    orderRun,           \* what the last Order Sync invocation did, per order
    \* ---- Inventory Sync (inventorySync.ts) ----
    shopifyInventory,   \* source inventory items, in listing order
    nauticalInventory,  \* target variants with their stock, in listing order
    inventoryRun,       \* outcome of the last Inventory Sync run
    cleanBefore,        \* the run before the last one succeeded and nobody has
                        \* changed any stock since
    \* ---- withRetry (errorHandling.ts) ----
    retryPc,            \* where the call of withRetry stands
    maxRetries,         \* its arguments
    delay,
    context,            \* whether the caller passed its context (the logger)
    retryI,             \* the loop index i
    attempts,           \* the invocations of fn so far: outcome, and the wait before
    waits,              \* the delays slept so far
    retryLog,           \* what was reported to the logger
    lastError,          \* the variable lastError
    thrown,             \* the error withRetry threw, if it did
    \* ---- overlapping webhook invocations, statement by statement ----
    inflight,           \* per invocation: where it stands and its locals
    \* ---- Inventory Sync, statement by statement ----
    syncPending,        \* where the run stands, its updates, its last write
    \* ---- functions applied to one input ----
    evaluation,         \* the function, its input and, once applied, its output
    \* ---- the listing fetches, request by request ----
    paging              \* the source's pages and where the fetch stands

productVars == <<nauticalProducts, nextProductId, shopifyCatalog, webhookCall, importRun>>
orderVars == <<nauticalOrders, nextOrderId, shopifyOrders, orderRun>>

inventoryVars == <<shopifyInventory, nauticalInventory, inventoryRun, cleanBefore>>
retryVars == <<retryPc, maxRetries, delay, context, retryI, attempts, waits, retryLog, lastError, thrown>>

stepVars == <<syncPending, evaluation, paging>>

nonProductVars == <<orderVars, inventoryVars, retryVars, inflight, stepVars>>
nonOrderVars == <<productVars, inventoryVars, retryVars, inflight, stepVars>>
nonInventoryVars == <<productVars, orderVars, retryVars, inflight, stepVars>>
nonRetryVars == <<productVars, orderVars, inventoryVars, inflight, stepVars>>

vars == <<nauticalProducts, nextProductId, shopifyCatalog, webhookCall, importRun,
          nauticalOrders, nextOrderId, shopifyOrders, orderRun,
          shopifyInventory, nauticalInventory, inventoryRun, cleanBefore,
          retryPc, maxRetries, delay, context, retryI, attempts, waits, retryLog, lastError, thrown,
          inflight, syncPending, evaluation, paging>>

(***************************************************************************)
(* Bounds                                                                  *)
(***************************************************************************)
MaxSourceProducts == 2
MaxProductIds == 3
MaxSourceOrders == 2
MaxOrderIds == 3
MaxQuantity == 2
MaxRetriesBound == 3
MaxMappings == 2
MaxItems == 2
MaxPages == 3

\* withRetry's defaults
DefaultMaxRetries == 3
DefaultDelay == 1000

SourceProductIds == 1..MaxSourceProducts
Titles == {"t1", "t2"}

Min(S) == CHOOSE x \in S : \A y \in S : x <= y

(***************************************************************************)
(* Errors and handleApiError (errorHandling.ts)                            *)
(***************************************************************************)
\* What fn can reject with: an axios error with a response (status), an axios
\* error without one (request sent, nothing came back), any other Error.
AxiosError(status) ==
    [response |-> TRUE, status |-> status, request |-> TRUE,
     message |-> "Request failed with status code"]
NetworkError == [response |-> FALSE, status |-> 0, request |-> TRUE, message |-> "socket hang up"]
PlainError(message) == [response |-> FALSE, status |-> 0, request |-> FALSE, message |-> message]

AuthenticationStatuses == {401, 403}
Rejections ==
    {AxiosError(st) : st \in {401, 403, 429, 500}} \cup {NetworkError, PlainError("boom")}

NoError == PlainError("undefined")
Fulfilled == PlainError("fulfilled")

\* new Error(`Failed after ${maxRetries} attempts: ${lastError?.message}`)
FailedAfter(n, cause) ==
    [response |-> FALSE, status |-> 0, request |-> FALSE,
     message |-> <<"Failed after", n, "attempts", cause.message>>]

\* handleApiError: the formatted error, as the prefix of its message and the
\* detail taken from the cause
handleApiError(error) ==
    IF error.response
    THEN IF error.status \in AuthenticationStatuses
         THEN [class |-> "Authentication error", detail |-> "Invalid credentials"]
         ELSE IF error.status = 429
         THEN [class |-> "Rate limit exceeded", detail |-> "Too many requests"]
         ELSE [class |-> "API error", detail |-> error.message]
    ELSE IF error.request
    THEN [class |-> "No response from server", detail |-> error.message]
    ELSE [class |-> "Request setup error", detail |-> error.message]

(***************************************************************************)
(* Product flows                                                           *)
(***************************************************************************)
ShopifyProducts == [id : SourceProductIds, title : Titles]

\* Listings of distinct source products, as the paginated fetch returns them
\* (each under its first title).
Catalogs ==
    {c \in UNION {[1..n -> {p \in ShopifyProducts : p.title = "t1"}] :
                      n \in 0..MaxSourceProducts} :
        \A i, j \in DOMAIN c : i # j => c[i].id # c[j].id}

\* null, as returned by a finder that matched nothing
NoProduct == [id |-> 0, externalId |-> 0, name |-> "none"]

\* the topics the switch has a case for
ProductTopics == {"products/create", "products/update", "products/delete"}

\* the topics deliveries arrive with: those and one the switch has no case for
Topics == ProductTopics \cup {"orders/create"}

\* The name under which the delivery carries its topic header.  The flow reads
\* headers?.["x-shopify-topic"]: a property lookup, which is case-sensitive.
HeaderNames == {"x-shopify-topic", "X-Shopify-Topic"}

ReadTopicHeader(headerName, value) ==
    IF headerName = "x-shopify-topic" THEN value ELSE "undefined"

\* instanceState.attributeMapping?.customMapping: stored JSON with
\* a mappings array, text that is not JSON, the JSON text null
CustomMappings == {"{\"mappings\":[]}", "{not json", "null"}

\* the same, stored JSON that is the array of mappings itself, and no stored
\* state at all (customMapping undefined, replaced by "{}")
ImportMappings == CustomMappings \cup {"[]", "undefined"}

JSONParse_DefaultsToEmpty(text) ==
    CASE text = "null" -> "null"
      [] text = "[]" -> "array"
      [] OTHER -> "object"

\* JSON.parse(customMapping || "{}"): the kind of value the text parses to,
\* or the SyntaxError it throws
JSONParse(text) ==
    CASE text = "undefined" -> "object"
      [] text = "{not json" -> "SyntaxError"
      [] text = "null" -> "null"
      [] text = "[]" -> "array"
      [] OTHER -> "object"

\* JSON.parse(customMapping || "{}").mappings || []
ParseAttributeMappings(customMapping) ==
    CASE JSONParse(customMapping) = "SyntaxError" -> "SyntaxError"
      [] JSONParse(customMapping) = "null" -> "TypeError"
      [] OTHER -> "[]"

\* for (const mapping of attributeMappings): only an array can be iterated
Iterable(parsed) == parsed = "array"

\* What the target answers to a mutation: the product, an HTTP error status, a
\* body with a top-level errors array, a body with non-empty userErrors
Responses == {"ok", "httpError", "errors", "userErrors"}

\* The remote writes of the flows and whether the code sends them under withRetry
RemoteWrites == {"productCreate", "productUpdate", "productDelete",
                 "orderCreate", "orderUpdate", "updateVariantInventory"}

UnderRetry(write) == write = "updateVariantInventory"

\* How often a write whose every send fails with an HTTP error is sent
SendsOfFailingWrite(write) == IF UnderRetry(write) THEN DefaultMaxRetries ELSE 1

\* The error a finder or a mutation helper throws for a response: what its
\* catch block makes of it with handleApiError
ThrownFor(response) ==
    CASE response = "httpError" -> handleApiError(AxiosError(500)).class
      [] response = "errors" -> handleApiError(PlainError("errors[0].message")).class
      [] response = "userErrors" -> handleApiError(PlainError("userErrors[0].message")).class
      [] OTHER -> "none"

NoCall == [header |-> "none", sentTopic |-> "none", topic |-> "none",
           mapping |-> "none", productId |-> 0,
           lookup |-> "none", found |-> 0, mutation |-> "none", target |-> 0,
           sent |-> 0, response |-> "none", result |-> "none", error |-> "none"]

\* The record of one delivery: what was read, looked up, sent and returned
WebhookCall(event, productId, lookup, found, mutation, target, response) ==
    [header |-> event.header, sentTopic |-> event.sentTopic, topic |-> event.topic,
     mapping |-> event.mapping,
     productId |-> productId, lookup |-> lookup, found |-> found,
     mutation |-> mutation, target |-> target,
     sent |-> IF mutation = "none" THEN 0
              ELSE IF response = "httpError" THEN SendsOfFailingWrite(mutation) ELSE 1,
     response |-> response,
     result |-> IF lookup = "httpError" \/ response \notin {"none", "ok"}
                THEN "error" ELSE "success",
     error |-> IF lookup = "httpError" THEN ThrownFor(lookup) ELSE ThrownFor(response)]

transformShopifyProductToNautical(shopifyProduct) ==
    [name |-> shopifyProduct.title,
     externalId |-> shopifyProduct.id,
     externalSource |-> "shopify"]

\* products(filter: {externalId: {eq: $externalId}}, first: 1).nodes[0] or null
findProductByExternalId(store, externalId) ==
    LET hits == {i \in 1..Len(store) : store[i].externalId = externalId}
    IN  IF hits = {} THEN NoProduct ELSE store[Min(hits)]

createProduct_UniqueExternalId(store, newId, product, externalId) ==
    IF \E i \in 1..Len(store) : store[i].externalId = externalId THEN store
    ELSE Append(store, [id |-> newId, externalId |-> externalId, name |-> product.name])

\* productCreate(input: {...product, externalId})
createProduct(store, newId, product, externalId) ==
    Append(store, [id |-> newId, externalId |-> externalId, name |-> product.name])

\* productUpdate(id, input: product)
updateProduct(store, id, product) ==
    [i \in 1..Len(store) |->
        IF store[i].id = id
        THEN [store[i] EXCEPT !.name = product.name, !.externalId = product.externalId]
        ELSE store[i]]

\* productDelete(id)
deleteProduct(store, id) == SelectSeq(store, LAMBDA p : p.id # id)

handleProductCreateOrUpdate_AlwaysCreate(event, data, findResp, writeResp) ==
    LET transformedProduct == transformShopifyProductToNautical(data)
    IN  IF findResp # "ok"
        THEN /\ webhookCall' = WebhookCall(event, data.id, findResp, 0, "none", 0, "none")
             /\ UNCHANGED <<nauticalProducts, nextProductId>>
        ELSE /\ nextProductId <= MaxProductIds
             /\ webhookCall' = WebhookCall(event, data.id, findResp, 0, "productCreate",
                                           nextProductId, writeResp)
             /\ nauticalProducts' =
                    IF writeResp = "ok"
                    THEN createProduct(nauticalProducts, nextProductId, transformedProduct, data.id)
                    ELSE nauticalProducts
             /\ nextProductId' = IF writeResp = "ok" THEN nextProductId + 1 ELSE nextProductId

handleProductCreateOrUpdate(event, data, findResp, writeResp) ==
    LET transformedProduct == transformShopifyProductToNautical(data)
        existingProduct == findProductByExternalId(nauticalProducts, data.id)
    IN  IF findResp # "ok"
        THEN \* the finder throws; nothing is written
             /\ webhookCall' = WebhookCall(event, data.id, findResp, 0, "none", 0, "none")
             /\ UNCHANGED <<nauticalProducts, nextProductId>>
        ELSE IF existingProduct # NoProduct
        THEN /\ webhookCall' = WebhookCall(event, data.id, findResp, existingProduct.id,
                                           "productUpdate", existingProduct.id, writeResp)
             /\ nauticalProducts' =
                    IF writeResp = "ok"
                    THEN updateProduct(nauticalProducts, existingProduct.id, transformedProduct)
                    ELSE nauticalProducts
             /\ UNCHANGED nextProductId
        ELSE /\ nextProductId <= MaxProductIds
             /\ webhookCall' = WebhookCall(event, data.id, findResp, 0, "productCreate",
                                           nextProductId, writeResp)
             /\ nauticalProducts' =
                    IF writeResp = "ok"
                    THEN createProduct(nauticalProducts, nextProductId, transformedProduct, data.id)
                    ELSE nauticalProducts
             /\ nextProductId' = IF writeResp = "ok" THEN nextProductId + 1 ELSE nextProductId

handleProductDelete_NotFoundThrows(event, data, findResp, writeResp) ==
    LET existingProduct == findProductByExternalId(nauticalProducts, data.id)
    IN  /\ webhookCall' =
              IF existingProduct # NoProduct /\ findResp = "ok"
              THEN WebhookCall(event, data.id, findResp, existingProduct.id,
                               "productDelete", existingProduct.id, writeResp)
              ELSE [WebhookCall(event, data.id, findResp, 0, "none", 0, "none")
                        EXCEPT !.result = "error", !.error = "Product not found"]
        /\ nauticalProducts' =
              IF existingProduct # NoProduct /\ findResp = "ok" /\ writeResp = "ok"
              THEN deleteProduct(nauticalProducts, existingProduct.id)
              ELSE nauticalProducts
        /\ UNCHANGED nextProductId

handleProductDelete(event, data, findResp, writeResp) ==
    LET existingProduct == findProductByExternalId(nauticalProducts, data.id)
    IN  IF findResp # "ok"
        THEN /\ webhookCall' = WebhookCall(event, data.id, findResp, 0, "none", 0, "none")
             /\ UNCHANGED <<nauticalProducts, nextProductId>>
        ELSE IF existingProduct # NoProduct
        THEN /\ webhookCall' = WebhookCall(event, data.id, findResp, existingProduct.id,
                                           "productDelete", existingProduct.id, writeResp)
             /\ nauticalProducts' =
                    IF writeResp = "ok"
                    THEN deleteProduct(nauticalProducts, existingProduct.id)
                    ELSE nauticalProducts
             /\ UNCHANGED nextProductId
        ELSE \* "Product not found in Nautical Commerce"
             /\ webhookCall' = WebhookCall(event, data.id, findResp, 0, "none", 0, "none")
             /\ UNCHANGED <<nauticalProducts, nextProductId>>

\* productUpdateWebhookFlow.onExecution: one webhook delivery, start to finish
ProductUpdateWebhook ==
    \E sentTopic \in Topics, headerName \in HeaderNames, customMapping \in CustomMappings :
        LET eventType == ReadTopicHeader(headerName, sentTopic)
            event == [header |-> headerName, sentTopic |-> sentTopic, topic |-> eventType,
                      mapping |-> customMapping]
            attributeMappings == ParseAttributeMappings(customMapping)
        IN  /\ IF attributeMappings # "[]"
               THEN \* JSON.parse throws ahead of the try block: nothing is handled
                    /\ webhookCall' = [NoCall EXCEPT !.header = headerName,
                                                     !.mapping = customMapping,
                                                     !.sentTopic = sentTopic,
                                                     !.topic = eventType,
                                                     !.result = "error",
                                                     !.error = attributeMappings]
                    /\ UNCHANGED <<nauticalProducts, nextProductId>>
               ELSE \E data \in ShopifyProducts :
                    CASE eventType \in {"products/create", "products/update"} ->
                            \E findResp \in {"ok", "httpError"} :
                            \E writeResp \in IF findResp = "ok" THEN Responses ELSE {"none"} :
                                handleProductCreateOrUpdate(event, data, findResp, writeResp)
                      [] eventType = "products/delete" ->
                            \E findResp \in {"ok", "httpError"} :
                            \E writeResp \in IF findResp = "ok" THEN Responses ELSE {"none"} :
                                handleProductDelete(event, data, findResp, writeResp)
                      [] OTHER ->
                            \* "Ignoring unsupported event type"
                            /\ webhookCall' = WebhookCall(event, data.id, "none", 0,
                                                          "none", 0, "none")
                            /\ UNCHANGED <<nauticalProducts, nextProductId>>
            /\ UNCHANGED <<shopifyCatalog, importRun>>
            /\ UNCHANGED nonProductVars

\* importToNauticalCommerce: one productCreate per listed product, no lookup first.
\* failed = the positions whose productCreate did not succeed.
RECURSIVE importToNauticalCommerce(_, _, _, _, _)
importToNauticalCommerce(store, newId, products, pos, failed) ==
    IF products = <<>>
    THEN [store |-> store, nextId |-> newId, imported |-> 0]
    ELSE LET product == Head(products)
             ok == pos \notin failed
             rest == importToNauticalCommerce(
                        IF ok THEN createProduct(store, newId, product, product.externalId)
                              ELSE store,
                        IF ok THEN newId + 1 ELSE newId,
                        Tail(products), pos + 1, failed)
         IN  [rest EXCEPT !.imported = @ + (IF ok THEN 1 ELSE 0)]

transformProducts(shopifyProducts) ==
    [i \in 1..Len(shopifyProducts) |-> transformShopifyProductToNautical(shopifyProducts[i])]

\* no Product Import has run
NoImport == [mapping |-> "none", result |-> "none", error |-> "none",
             fetched |-> FALSE, attempted |-> 0, imported |-> 0]

\* productImportFlow.onExecution: one bulk run over the source catalogue.
\* The parsed mapping state is handed to transformProducts as it is.
ProductImport ==
    \E customMapping \in ImportMappings :
        LET attributeMappings == JSONParse(customMapping)
        IN  /\ IF attributeMappings = "SyntaxError"
               THEN \* JSON.parse throws ahead of the try block and of the fetch
                    /\ importRun' = [NoImport EXCEPT !.mapping = customMapping,
                                                     !.result = "error",
                                                     !.error = "SyntaxError"]
                    /\ UNCHANGED <<nauticalProducts, nextProductId>>
               ELSE IF shopifyCatalog # <<>> /\ ~Iterable(attributeMappings)
               THEN \* the first fetched product meets for...of over a non-array
                    /\ importRun' = [NoImport EXCEPT !.mapping = customMapping,
                                                     !.result = "error",
                                                     !.error = "TypeError",
                                                     !.fetched = TRUE]
                    /\ UNCHANGED <<nauticalProducts, nextProductId>>
               ELSE \E failed \in SUBSET (1..Len(shopifyCatalog)) :
                    \E r \in {importToNauticalCommerce(nauticalProducts, nextProductId,
                                   transformProducts(shopifyCatalog), 1, failed)} :
                        /\ r.nextId <= MaxProductIds + 1
                        /\ nauticalProducts' = r.store
                        /\ nextProductId' = r.nextId
                        /\ importRun' = [mapping |-> customMapping, result |-> "success",
                                         error |-> "none", fetched |-> TRUE,
                                         attempted |-> Len(shopifyCatalog),
                                         imported |-> r.imported]
            /\ UNCHANGED <<shopifyCatalog, webhookCall>>
            /\ UNCHANGED nonProductVars

\* The component action "Create Product" (createProduct.actions.create.perform):
\* productCreate with input {name: title, description, variants}
ComponentCreateProduct ==
    \E shopifyProduct \in {p \in ShopifyProducts : p.title = "t1"}, response \in Responses :
        /\ nextProductId <= MaxProductIds
        /\ IF response = "ok"
           THEN /\ nauticalProducts' = Append(nauticalProducts,
                                              [id |-> nextProductId,
                                               externalId |-> NoProduct.externalId,
                                               name |-> shopifyProduct.title])
                /\ nextProductId' = nextProductId + 1
           ELSE UNCHANGED <<nauticalProducts, nextProductId>>
        /\ UNCHANGED <<shopifyCatalog, webhookCall, importRun>>
        /\ UNCHANGED nonProductVars

ProductInit ==
    /\ nauticalProducts = <<>>
    /\ nextProductId = 1
    /\ shopifyCatalog \in Catalogs
    /\ webhookCall = NoCall
    /\ importRun = NoImport

ProductIdle ==
    /\ nauticalProducts = <<>>
    /\ nextProductId = 1
    /\ shopifyCatalog = <<>>
    /\ webhookCall = NoCall
    /\ importRun = NoImport

(***************************************************************************)
(* Order Sync                                                              *)
(***************************************************************************)
SourceOrderIds == 1..MaxSourceOrders

\* displayFinancialStatus values the flows are driven with; EXPIRED is a
\* Shopify status the table does not list.
SourceStatuses == {"PAID", "EXPIRED"}

ShopifyOrderData == [id : SourceOrderIds, displayFinancialStatus : SourceStatuses]

\* Listings of the recent orders: every source order once, any status
OrderListings ==
    {l \in [SourceOrderIds -> ShopifyOrderData] : \A i \in SourceOrderIds : l[i].id = i}

NoOrder == [id |-> 0, externalId |-> 0, status |-> "none"]

\* the object syncAllOrders returns; all zero when it did not run
NoResults == [total |-> 0, created |-> 0, updated |-> 0, skipped |-> 0]

NoRun == [path |-> "none", result |-> "none", items |-> <<>>, results |-> NoResults]

StatusMapKeys == {"PAID", "PARTIALLY_PAID", "PENDING", "REFUNDED", "VOIDED",
                  "AUTHORIZED", "PARTIALLY_REFUNDED"}

\* keys every object literal inherits from Object.prototype; statusMap[k] is
\* then a truthy non-string, which the || does not replace
ObjectPrototypeKeys == {"constructor", "toString", "valueOf", "hasOwnProperty"}

mapShopifyStatusToNautical(shopifyStatus) ==
    IF shopifyStatus \in StatusMapKeys THEN shopifyStatus
    ELSE IF shopifyStatus \in ObjectPrototypeKeys THEN "[inherited Object.prototype member]"
    ELSE "PENDING"

transformShopifyOrderToNautical(shopifyOrder) ==
    [externalId |-> shopifyOrder.id,
     status |-> mapShopifyStatusToNautical(shopifyOrder.displayFinancialStatus)]

findOrderByExternalId_NeverFinds(store, externalId) == NoOrder

\* orders(filter: {externalId: {eq: $externalId}}, first: 1).nodes[0] or null
findOrderByExternalId(store, externalId) ==
    LET hits == {i \in 1..Len(store) : store[i].externalId = externalId}
    IN  IF hits = {} THEN NoOrder ELSE store[Min(hits)]

\* orderCreate(input: nauticalOrder)
createOrder(store, newId, orderData) ==
    LET nauticalOrder == transformShopifyOrderToNautical(orderData)
    IN  Append(store, [id |-> newId, externalId |-> nauticalOrder.externalId,
                       status |-> nauticalOrder.status])

\* orderUpdate(id, input: nauticalOrder)
updateOrder(store, id, orderData) ==
    LET nauticalOrder == transformShopifyOrderToNautical(orderData)
    IN  [i \in 1..Len(store) |->
            IF store[i].id = id
            THEN [store[i] EXCEPT !.externalId = nauticalOrder.externalId,
                                  !.status = nauticalOrder.status]
            ELSE store[i]]

\* what one order's processing did: the mutation issued and whether the
\* processing ended without an error
OrderItem(orderData, mutation, ok) ==
    [orderId |-> orderData.id, status |-> orderData.displayFinancialStatus,
     mutation |-> mutation, ok |-> ok]

\* history: was this order, with this source status, processed successfully by
\* the invocation in `before`
ProcessedIn(before, item) ==
    \E j \in 1..Len(before.items) :
        /\ before.items[j].orderId = item.orderId
        /\ before.items[j].status = item.status
        /\ before.items[j].ok

RunRecord(path, result, items, results) ==
    [path |-> path, result |-> result, items |-> items, results |-> results]

\* One order through the webhook path: the outcome as
\* [store, nextId, item]; resp is "ok", "findError" or "writeError".
processOrderWebhook(store, newId, orderData, resp) ==
    LET existingOrder == findOrderByExternalId(store, orderData.id)
    IN  IF resp = "findError"
        THEN [store |-> store, nextId |-> newId,
              item |-> OrderItem(orderData, "none", FALSE)]
        ELSE IF existingOrder # NoOrder
        THEN [store |-> IF resp = "ok" THEN updateOrder(store, existingOrder.id, orderData)
                        ELSE store,
              nextId |-> newId,
              item |-> OrderItem(orderData, "orderUpdate", resp = "ok")]
        ELSE [store |-> IF resp = "ok" THEN createOrder(store, newId, orderData) ELSE store,
              nextId |-> IF resp = "ok" THEN newId + 1 ELSE newId,
              item |-> OrderItem(orderData, "orderCreate", resp = "ok")]

syncOneOrder_NoStatusTest(store, newId, order, resp) ==
    processOrderWebhook(store, newId, order, resp)

\* The body of the loop of syncAllOrders for one order
syncOneOrder(store, newId, order, resp) ==
    LET existingOrder == findOrderByExternalId(store, order.id)
    IN  IF resp = "findError"
        THEN [store |-> store, nextId |-> newId,
              item |-> OrderItem(order, "none", FALSE)]
        ELSE IF existingOrder # NoOrder
        THEN IF existingOrder.status # mapShopifyStatusToNautical(order.displayFinancialStatus)
             THEN [store |-> IF resp = "ok" THEN updateOrder(store, existingOrder.id, order)
                             ELSE store,
                   nextId |-> newId,
                   item |-> OrderItem(order, "orderUpdate", resp = "ok")]
             ELSE [store |-> store, nextId |-> newId,
                   item |-> OrderItem(order, "none", TRUE)]
        ELSE [store |-> IF resp = "ok" THEN createOrder(store, newId, order) ELSE store,
              nextId |-> IF resp = "ok" THEN newId + 1 ELSE newId,
              item |-> OrderItem(order, "orderCreate", resp = "ok")]

\* syncAllOrders: the loop over the fetched orders; a failing order is caught
\* and the loop goes on.  resps[i] is the remote behaviour met by order i.
RECURSIVE syncAllOrders(_, _, _, _)
syncAllOrders(store, newId, orders, resps) ==
    IF orders = <<>>
    THEN [store |-> store, nextId |-> newId, items |-> <<>>,
          total |-> 0, created |-> 0, updated |-> 0, skipped |-> 0]
    ELSE LET one == syncOneOrder(store, newId, Head(orders), Head(resps))
             rest == syncAllOrders(one.store, one.nextId, Tail(orders), Tail(resps))
             it == one.item
         IN  [rest EXCEPT
                 !.items = <<it>> \o @,
                 !.total = @ + 1,
                 !.created = @ + (IF it.mutation = "orderCreate" /\ it.ok THEN 1 ELSE 0),
                 !.updated = @ + (IF it.mutation = "orderUpdate" /\ it.ok THEN 1 ELSE 0),
                 !.skipped = @ + (IF it.mutation = "none" /\ it.ok THEN 1 ELSE 0)]

OrderResponses == {"ok", "findError", "writeError"}

\* orderSyncFlow.onExecution with a webhook payload: one order
OrderSyncWebhook ==
    \E orderData \in ShopifyOrderData, resp \in OrderResponses :
        \E r \in {processOrderWebhook(nauticalOrders, nextOrderId, orderData, resp)} :
            /\ r.nextId <= MaxOrderIds + 1
            /\ nauticalOrders' = r.store
            /\ nextOrderId' = r.nextId
            /\ orderRun' = RunRecord("webhook", IF r.item.ok THEN "success" ELSE "error",
                                      <<r.item>>, NoResults)
            /\ UNCHANGED shopifyOrders
            /\ UNCHANGED nonOrderVars

\* orderSyncFlow.onExecution without a payload: the bulk pass
OrderSyncBulk ==
    \/ \E resps \in [1..Len(shopifyOrders) -> OrderResponses] :
        \E r \in {syncAllOrders(nauticalOrders, nextOrderId, shopifyOrders, resps)} :
            /\ r.nextId <= MaxOrderIds + 1
            /\ nauticalOrders' = r.store
            /\ nextOrderId' = r.nextId
            /\ orderRun' = RunRecord("bulk", "success", r.items,
                                      [total |-> r.total, created |-> r.created,
                                       updated |-> r.updated, skipped |-> r.skipped])
            /\ UNCHANGED shopifyOrders
            /\ UNCHANGED nonOrderVars
    \/ \* getRecentShopifyOrders throws: nothing is processed
       /\ orderRun' = RunRecord("bulk", "error", <<>>, NoResults)
       /\ UNCHANGED <<nauticalOrders, nextOrderId, shopifyOrders>>
       /\ UNCHANGED nonOrderVars

\* The source order's financial status changes (the shop's doing, not a flow's).
\* What was processed before the change is no longer "the same order, unchanged".
ShopifyOrderStatusChange ==
    \E i \in 1..Len(shopifyOrders), s \in SourceStatuses :
        /\ s # shopifyOrders[i].displayFinancialStatus
        /\ shopifyOrders' = [shopifyOrders EXCEPT ![i].displayFinancialStatus = s]
        /\ orderRun' = NoRun
        /\ UNCHANGED <<nauticalOrders, nextOrderId>>
        /\ UNCHANGED nonOrderVars

OrderInit ==
    /\ nauticalOrders = <<>>
    /\ nextOrderId = 1
    /\ shopifyOrders \in OrderListings
    /\ orderRun = NoRun

OrderIdle ==
    /\ nauticalOrders = <<>>
    /\ nextOrderId = 1
    /\ shopifyOrders = <<>>
    /\ orderRun = NoRun

(***************************************************************************)
(* Inventory Sync                                                          *)
(***************************************************************************)
Quantities == 0..MaxQuantity

NoSku == ""         \* variant?.sku undefined or empty: falsy
NoVariant == 0      \* variant?.id undefined: falsy

\* The shape of a source listing: per item its sku, its variant id and the
\* number of locations it is stocked at.  Two skus on both sides, a sku
\* listed twice, an item without sku, an item without variant.
ShopifyListingShapes ==
    { << [sku |-> "A", variantId |-> 1, locations |-> 2],
         [sku |-> "B", variantId |-> 2, locations |-> 1] >>,
      << [sku |-> "A", variantId |-> 1, locations |-> 2],
         [sku |-> "A", variantId |-> 2, locations |-> 1] >>,
      << [sku |-> "A", variantId |-> 1, locations |-> 2],
         [sku |-> NoSku, variantId |-> 2, locations |-> 1] >>,
      << [sku |-> "A", variantId |-> NoVariant, locations |-> 2],
         [sku |-> "B", variantId |-> 2, locations |-> 1] >> }

\* The target's variants: both skus, or one sku on two variants (B then absent)
NauticalListingShapes ==
    { << [sku |-> "A", variantId |-> 11], [sku |-> "B", variantId |-> 12] >>,
      << [sku |-> "A", variantId |-> 11], [sku |-> "A", variantId |-> 12] >> }

ShopifyInventories ==
    UNION { { [i \in 1..Len(shape) |->
                 [sku |-> shape[i].sku, variantId |-> shape[i].variantId,
                  levels |-> lv[i]]] :
              lv \in { f \in [1..Len(shape) -> UNION {[1..n -> Quantities] : n \in 1..2}] :
                          \A i \in 1..Len(shape) : Len(f[i]) = shape[i].locations } } :
            shape \in ShopifyListingShapes }

NauticalInventories ==
    UNION { { [i \in 1..Len(shape) |->
                 [sku |-> shape[i].sku, variantId |-> shape[i].variantId,
                  quantity |-> q[i]]] :
              q \in [1..Len(shape) -> Quantities] } :
            shape \in NauticalListingShapes }

NoItem == [sku |-> NoSku, variantId |-> NoVariant, quantity |-> 0]

Max(S) == CHOOSE x \in S : \A y \in S : x >= y

\* levels.reduce((sum, level) => sum + level.available, 0)
RECURSIVE SumLevels(_)
SumLevels(levels) == IF levels = <<>> THEN 0 ELSE Head(levels) + SumLevels(Tail(levels))

\* Math.min
MathMin(a, b) == IF a <= b THEN a ELSE b

\* new Map(items.map(item => [item.sku, item])).get(sku): the last item listed
\* under the sku, or undefined
MapGetBySku(items, sku) ==
    LET hits == {i \in 1..Len(items) : items[i].sku = sku}
    IN  IF hits = {} THEN NoItem ELSE items[Max(hits)]

InventoryUpdate(sku, shopifyItem, nauticalItem, shopifyQuantity, targetQuantity) ==
    [sku |-> sku,
     shopifyVariantId |-> shopifyItem.variantId,
     nauticalVariantId |-> nauticalItem.variantId,
     shopifyQuantity |-> shopifyQuantity,
     nauticalQuantity |-> nauticalItem.quantity,
     targetQuantity |-> targetQuantity]

RECURSIVE calculateInventoryUpdates_NoChangeTest(_, _)
calculateInventoryUpdates_NoChangeTest(shopifyInv, nauticalInv) ==
    IF shopifyInv = <<>> THEN <<>>
    ELSE LET shopifyItem == Head(shopifyInv)
             rest == calculateInventoryUpdates_NoChangeTest(Tail(shopifyInv), nauticalInv)
             nauticalItem == MapGetBySku(nauticalInv, shopifyItem.sku)
             shopifyQuantity == SumLevels(shopifyItem.levels)
             targetQuantity == MathMin(shopifyQuantity, nauticalItem.quantity)
         IN  IF shopifyItem.sku = NoSku \/ shopifyItem.variantId = NoVariant THEN rest
             ELSE IF nauticalItem = NoItem THEN rest
             ELSE <<InventoryUpdate(shopifyItem.sku, shopifyItem, nauticalItem,
                                    shopifyQuantity, targetQuantity)>> \o rest

RECURSIVE calculateInventoryUpdates_CreatesMissing(_, _)
calculateInventoryUpdates_CreatesMissing(shopifyInv, nauticalInv) ==
    IF shopifyInv = <<>> THEN <<>>
    ELSE LET shopifyItem == Head(shopifyInv)
             rest == calculateInventoryUpdates_CreatesMissing(Tail(shopifyInv), nauticalInv)
             nauticalItem == MapGetBySku(nauticalInv, shopifyItem.sku)
             shopifyQuantity == SumLevels(shopifyItem.levels)
             targetQuantity == MathMin(shopifyQuantity, nauticalItem.quantity)
         IN  IF shopifyItem.sku = NoSku \/ shopifyItem.variantId = NoVariant THEN rest
             ELSE IF nauticalItem = NoItem \/ shopifyQuantity # targetQuantity
                  THEN <<InventoryUpdate(shopifyItem.sku, shopifyItem, nauticalItem,
                                         shopifyQuantity, targetQuantity)>> \o rest
                  ELSE rest

\* calculateInventoryUpdates of flows/inventorySync.ts, the one the flow runs
RECURSIVE calculateInventoryUpdates(_, _)
calculateInventoryUpdates(shopifyInv, nauticalInv) ==
    IF shopifyInv = <<>> THEN <<>>
    ELSE LET shopifyItem == Head(shopifyInv)
             rest == calculateInventoryUpdates(Tail(shopifyInv), nauticalInv)
             nauticalItem == MapGetBySku(nauticalInv, shopifyItem.sku)
             shopifyQuantity == SumLevels(shopifyItem.levels)
             targetQuantity == MathMin(shopifyQuantity, nauticalItem.quantity)
         IN  IF shopifyItem.sku = NoSku \/ shopifyItem.variantId = NoVariant THEN rest
             ELSE IF nauticalItem = NoItem THEN rest
             ELSE IF shopifyQuantity # targetQuantity
                  THEN <<InventoryUpdate(shopifyItem.sku, shopifyItem, nauticalItem,
                                         shopifyQuantity, targetQuantity)>> \o rest
                  ELSE rest

\* calculateInventoryUpdates of utils/dataTransformation.ts (the older copy of
\* the flow kept in that file): both sides indexed by sku, items without sku
\* left out, Shopify's quantity taken as the target quantity.  A Map keeps a
\* key at the position of its first insertion and the value of its last.
calculateInventoryUpdates_dataTransformation(shopifyInv, nauticalInv) ==
    LET withSku(items) == SelectSeq(items, LAMBDA item : item.sku # NoSku)
        shopifyItems == withSku(shopifyInv)
        nauticalItems == withSku(nauticalInv)
        firstOf(i) == \A j \in 1..(i - 1) : shopifyItems[j].sku # shopifyItems[i].sku
        lastOf(sku) == shopifyItems[Max({j \in 1..Len(shopifyItems) :
                                            shopifyItems[j].sku = sku})]
        RECURSIVE entries(_)
        entries(i) ==
            IF i > Len(shopifyItems) THEN <<>>
            ELSE LET sku == shopifyItems[i].sku
                     shopifyItem == lastOf(sku)
                     totalQuantity == SumLevels(shopifyItem.levels)
                     nauticalItem == MapGetBySku(nauticalItems, sku)
                 IN  IF firstOf(i) /\ nauticalItem # NoItem
                        /\ totalQuantity # nauticalItem.quantity
                     THEN <<InventoryUpdate(sku, shopifyItem, nauticalItem,
                                            totalQuantity, totalQuantity)>> \o entries(i + 1)
                     ELSE entries(i + 1)
    IN  entries(1)

NoInventoryRun == [result |-> "none", updatesApplied |-> 0,
                   failedWrites |-> 0, rejectedWrites |-> 0]

\* The quantities the successful writes of a run send to one target variant
WrittenTo(updates, failed, variantId) ==
    {updates[i].targetQuantity :
        i \in {j \in 1..Len(updates) : j \notin failed /\ updates[j].nauticalVariantId = variantId}}

\* The quantities the first k target variants can hold once the writes of a
\* run have arrived: a variant nothing was written to keeps its quantity
RECURSIVE StockAfter(_, _, _, _)
StockAfter(inventory, updates, notApplied, k) ==
    IF k = 0 THEN {<<>>}
    ELSE LET written == WrittenTo(updates, notApplied, inventory[k].variantId)
             candidates == IF written = {} THEN {inventory[k].quantity} ELSE written
         IN  {Append(before, q) : before \in StockAfter(inventory, updates, notApplied, k - 1),
                                  q \in candidates}

\* inventorySyncFlow.onExecution: fetch both listings, compute the updates and
\* send them all at once (Promise.all).  failed = the updates whose request
\* fails on every attempt of withRetry; rejected = the updates answered with a
\* body carrying errors, which nothing inspects.  Neither is applied by the
\* target.  Writes to one variant reach the target in any order: the last stays.
InventorySync ==
    \/ LET updates == calculateInventoryUpdates(shopifyInventory, nauticalInventory)
       IN  \E failed \in SUBSET (1..Len(updates)) :
           \E rejected \in SUBSET ((1..Len(updates)) \ failed) :
           \E after \in StockAfter(nauticalInventory, updates, failed \cup rejected,
                                   Len(nauticalInventory)) :
               /\ nauticalInventory' =
                     [k \in 1..Len(nauticalInventory) |->
                         [nauticalInventory[k] EXCEPT !.quantity = after[k]]]
               /\ inventoryRun' = [result |-> IF failed = {} THEN "success" ELSE "error",
                                   updatesApplied |-> Len(updates),
                                   failedWrites |-> Cardinality(failed),
                                   rejectedWrites |-> Cardinality(rejected)]
               /\ cleanBefore' = (inventoryRun.result = "success"
                                  /\ inventoryRun.rejectedWrites = 0)
               /\ UNCHANGED shopifyInventory
               /\ UNCHANGED nonInventoryVars
    \/ \* a listing fetch fails: the run throws before anything is computed
       /\ inventoryRun' = [result |-> "error", updatesApplied |-> 0,
                           failedWrites |-> 0, rejectedWrites |-> 0]
       /\ cleanBefore' = (inventoryRun.result = "success"
                          /\ inventoryRun.rejectedWrites = 0)
       /\ UNCHANGED <<shopifyInventory, nauticalInventory>>
       /\ UNCHANGED nonInventoryVars

\* Somebody else (a sale, a restock) changes a stock level on either platform
StockChange ==
    /\ \/ \E i \in 1..Len(shopifyInventory) :
          \E l \in 1..Len(shopifyInventory[i].levels), q \in Quantities :
              /\ q # shopifyInventory[i].levels[l]
              /\ shopifyInventory' = [shopifyInventory EXCEPT ![i].levels[l] = q]
              /\ UNCHANGED nauticalInventory
       \/ \E k \in 1..Len(nauticalInventory), q \in Quantities :
              /\ q # nauticalInventory[k].quantity
              /\ nauticalInventory' = [nauticalInventory EXCEPT ![k].quantity = q]
              /\ UNCHANGED shopifyInventory
    /\ inventoryRun' = NoInventoryRun
    /\ cleanBefore' = FALSE
    /\ UNCHANGED nonInventoryVars

InventoryInit ==
    /\ shopifyInventory \in ShopifyInventories
    /\ nauticalInventory \in NauticalInventories
    /\ inventoryRun = NoInventoryRun
    /\ cleanBefore = FALSE

InventoryIdle ==
    /\ shopifyInventory = <<>>
    /\ nauticalInventory = <<>>
    /\ inventoryRun = NoInventoryRun
    /\ cleanBefore = FALSE

(***************************************************************************)
(* withRetry                                                               *)
(***************************************************************************)
RECURSIVE Pow2(_)
Pow2(n) == IF n = 0 THEN 1 ELSE 2 * Pow2(n - 1)

RetryDelay_ExponentOffByOne(d, i) == d * Pow2(i + 1)

\* const retryDelay = delay * 2 ** i
RetryDelay(d, i) == d * Pow2(i)

LoopContinues_OffByOne(i, n) == i <= n

\* the loop condition i < maxRetries
LoopContinues(i, n) == i < n

LastWait == IF waits = <<>> THEN 0 ELSE waits[Len(waits)]

RetryCall_FulfilledIsCaught ==
    /\ retryPc = "call"
    /\ \E outcome \in Rejections \cup {Fulfilled} :
          /\ attempts' = Append(attempts, [outcome |-> outcome, waitedBefore |-> LastWait,
                                           waitsBefore |-> Len(waits)])
          /\ retryPc' = "log"
    /\ UNCHANGED <<maxRetries, delay, context, retryI, waits, retryLog, lastError, thrown>>
    /\ UNCHANGED nonRetryVars

\* try { return await fn() }
RetryCall ==
    /\ retryPc = "call"
    /\ \E outcome \in Rejections \cup {Fulfilled} :
          /\ attempts' = Append(attempts, [outcome |-> outcome, waitedBefore |-> LastWait,
                                           waitsBefore |-> Len(waits)])
          /\ IF outcome = Fulfilled
             THEN retryPc' = "returned" /\ UNCHANGED lastError
             ELSE retryPc' = "log" /\ UNCHANGED lastError
    /\ UNCHANGED <<maxRetries, delay, context, retryI, waits, retryLog, thrown>>
    /\ UNCHANGED nonRetryVars

\* catch: compute retryDelay, report the failed attempt, keep the error
RetryLog ==
    /\ retryPc = "log"
    /\ retryLog' = Append(retryLog,
                          IF context
                          THEN \* logError(context, `Attempt ... failed ...`, errorObject)
                               [sink |-> "logError", attempt |-> retryI + 1,
                                retryDelay |-> RetryDelay(delay, retryI),
                                error |-> attempts[Len(attempts)].outcome]
                          ELSE \* process.stdout.write(`Attempt ... failed ...`)
                               [sink |-> "stdout", attempt |-> retryI + 1,
                                retryDelay |-> RetryDelay(delay, retryI),
                                error |-> NoError])
    /\ lastError' = attempts[Len(attempts)].outcome
    /\ retryPc' = "sleep"
    /\ UNCHANGED <<maxRetries, delay, context, retryI, attempts, waits, thrown>>
    /\ UNCHANGED nonRetryVars

\* await new Promise(resolve => setTimeout(resolve, retryDelay)); i++
RetrySleep ==
    /\ retryPc = "sleep"
    /\ waits' = Append(waits, RetryDelay(delay, retryI))
    /\ retryI' = retryI + 1
    /\ retryPc' = IF LoopContinues(retryI + 1, maxRetries) THEN "call" ELSE "throw"
    /\ UNCHANGED <<maxRetries, delay, context, attempts, retryLog, lastError, thrown>>
    /\ UNCHANGED nonRetryVars

\* throw new Error(`Failed after ...`)
RetryThrow ==
    /\ retryPc = "throw"
    /\ thrown' = FailedAfter(maxRetries, lastError)
    /\ retryPc' = "thrown"
    /\ UNCHANGED <<maxRetries, delay, context, retryI, attempts, waits, retryLog, lastError>>
    /\ UNCHANGED nonRetryVars

\* try { return await fn() } where fn is the productCreate request of
\* importToNauticalCommerce for the product at hand.  The target may have
\* applied a request whose response never arrives: fn then rejects without
\* a response, like any other network failure.
RetryCallProductCreate ==
    /\ retryPc = "call"
    /\ shopifyCatalog # <<>>
    /\ \E outcome \in Rejections \cup {Fulfilled}, applied \in BOOLEAN :
          LET product == transformShopifyProductToNautical(shopifyCatalog[1])
          IN  /\ outcome = Fulfilled => applied
              /\ applied => outcome \in {Fulfilled, NetworkError}
              /\ applied => nextProductId <= MaxProductIds
              /\ attempts' = Append(attempts, [outcome |-> outcome, waitedBefore |-> LastWait,
                                               waitsBefore |-> Len(waits)])
              /\ IF applied
                 THEN /\ nauticalProducts' = createProduct(nauticalProducts, nextProductId,
                                                           product, product.externalId)
                      /\ nextProductId' = nextProductId + 1
                 ELSE UNCHANGED <<nauticalProducts, nextProductId>>
              /\ retryPc' = IF outcome = Fulfilled THEN "returned" ELSE "log"
    /\ UNCHANGED <<maxRetries, delay, context, retryI, waits, retryLog, lastError, thrown>>
    /\ UNCHANGED <<shopifyCatalog, webhookCall, importRun>>
    /\ UNCHANGED <<orderVars, inventoryVars, inflight, stepVars>>

RetryArguments == (0..MaxRetriesBound) \cup {DefaultMaxRetries}
RetryDelays == {DefaultDelay, 250}

\* withRetry(fn, maxRetries, delay) has just been called
RetryInit ==
    /\ maxRetries \in RetryArguments
    /\ delay \in RetryDelays
    /\ context \in BOOLEAN
    /\ retryI = 0
    /\ retryPc = IF LoopContinues(0, maxRetries) THEN "call" ELSE "throw"
    /\ attempts = <<>>
    /\ waits = <<>>
    /\ retryLog = <<>>
    /\ lastError = NoError
    /\ thrown = NoError

RetryIdle ==
    /\ maxRetries = 0
    /\ delay = 0
    /\ context = FALSE
    /\ retryI = 0
    /\ retryPc = "idle"
    /\ attempts = <<>>
    /\ waits = <<>>
    /\ retryLog = <<>>
    /\ lastError = NoError
    /\ thrown = NoError

(***************************************************************************)
(* Overlapping invocations                                                 *)
(*                                                                         *)
(* The host runs every delivery as its own invocation and nothing in the   *)
(* flows takes a lock, so the awaits of two invocations interleave.  Here  *)
(* an invocation advances from one await to the next.                      *)
(***************************************************************************)
Invocations == {"first", "second"}

\* An invocation of the given flow that has not started
Waiting(flow) ==
    [flow |-> flow, pc |-> "idle", topic |-> "none", id |-> 0, value |-> "none",
     existing |-> 0, mutation |-> "none", logged |-> "none"]

\* The locals that are dead once the handler has returned or thrown
Finished(call, pc, mutation) ==
    [call EXCEPT !.pc = pc, !.mutation = mutation, !.value = "none", !.existing = 0]

\* productUpdateWebhookFlow.onExecution: the payload and the topic header are read
WebhookReceive(p) ==
    /\ inflight[p].flow = "product"
    /\ inflight[p].pc = "idle"
    /\ \E sentTopic \in Topics, headerName \in HeaderNames, data \in ShopifyProducts :
          inflight' = [inflight EXCEPT ![p].pc = "received",
                                       ![p].topic = ReadTopicHeader(headerName, sentTopic),
                                       ![p].id = data.id,
                                       ![p].value = data.title]
    /\ UNCHANGED <<productVars, orderVars, inventoryVars, retryVars, stepVars>>

\* the stored mapping is parsed (ahead of the try block), then the switch is entered
WebhookClassify(p) ==
    /\ inflight[p].flow = "product"
    /\ inflight[p].pc = "received"
    /\ \E customMapping \in CustomMappings :
          inflight' = [inflight EXCEPT ![p] =
                          IF ParseAttributeMappings(customMapping) # "[]"
                          THEN Finished(@, "failed", "none")
                          ELSE [@ EXCEPT !.pc = "classified"]]
    /\ UNCHANGED <<productVars, orderVars, inventoryVars, retryVars, stepVars>>

\* default: logInfo("Ignoring unsupported event type"); break
WebhookIgnore(p) ==
    /\ inflight[p].flow = "product"
    /\ inflight[p].pc = "classified"
    /\ inflight[p].topic \notin ProductTopics
    /\ inflight' = [inflight EXCEPT ![p] = [Finished(@, "handled", "none")
                                               EXCEPT !.logged = "info"]]
    /\ UNCHANGED <<productVars, orderVars, inventoryVars, retryVars, stepVars>>

\* await findProductByExternalId(connection, data.id), in either handler
WebhookFind(p) ==
    /\ inflight[p].flow = "product"
    /\ inflight[p].pc = "classified"
    /\ inflight[p].topic \in ProductTopics
    /\ \E findResp \in {"ok", "httpError"} :
          LET existingProduct == findProductByExternalId(nauticalProducts, inflight[p].id)
          IN  inflight' = [inflight EXCEPT ![p] =
                  IF findResp # "ok" THEN Finished(@, "caught", "none")
                  ELSE IF existingProduct = NoProduct /\ @.topic = "products/delete"
                  THEN Finished(@, "handled", "none")
                  ELSE [@ EXCEPT !.pc = "write", !.existing = existingProduct.id]]
    /\ UNCHANGED <<productVars, orderVars, inventoryVars, retryVars, stepVars>>

\* await createProduct / updateProduct / deleteProduct, as the lookup decided.
\* The target cannot confirm a write to a record that is gone by now.
WebhookWrite(p) ==
    LET call == inflight[p]
        mutation == IF call.topic = "products/delete" THEN "productDelete"
                    ELSE IF call.existing # 0 THEN "productUpdate" ELSE "productCreate"
        gone == /\ mutation # "productCreate"
                /\ \A i \in 1..Len(nauticalProducts) : nauticalProducts[i].id # call.existing
        product == transformShopifyProductToNautical([id |-> call.id, title |-> call.value])
    IN  /\ call.flow = "product"
        /\ call.pc = "write"
        /\ \E writeResp \in IF gone THEN Responses \ {"ok"} ELSE Responses :
              IF writeResp # "ok"
              THEN /\ inflight' = [inflight EXCEPT ![p] = Finished(@, "caught", mutation)]
                   /\ UNCHANGED <<nauticalProducts, nextProductId>>
              ELSE /\ mutation = "productCreate" => nextProductId <= MaxProductIds
                   /\ inflight' = [inflight EXCEPT ![p] = Finished(@, "handled", mutation)]
                   /\ nauticalProducts' =
                         CASE mutation = "productCreate" ->
                                  createProduct(nauticalProducts, nextProductId, product, call.id)
                           [] mutation = "productUpdate" ->
                                  updateProduct(nauticalProducts, call.existing, product)
                           [] OTHER -> deleteProduct(nauticalProducts, call.existing)
                   /\ nextProductId' = IF mutation = "productCreate" THEN nextProductId + 1
                                       ELSE nextProductId
        /\ UNCHANGED <<shopifyCatalog, webhookCall, importRun>>
        /\ UNCHANGED <<orderVars, inventoryVars, retryVars, stepVars>>

\* logInfo("Successfully processed ..."); return {data: {success: true, ...}}
WebhookAcknowledge(p) ==
    /\ inflight[p].flow = "product"
    /\ inflight[p].pc = "handled"
    /\ inflight' = [inflight EXCEPT ![p].pc = "acknowledged", ![p].logged = "info"]
    /\ UNCHANGED <<productVars, orderVars, inventoryVars, retryVars, stepVars>>

CatchBlock_Swallows(call) == [call EXCEPT !.pc = "acknowledged", !.logged = "error"]

\* catch (error) { logError(...); throw error }
CatchBlock(call) == [call EXCEPT !.pc = "failed", !.logged = "error"]

WebhookCatch(p) ==
    /\ inflight[p].flow = "product"
    /\ inflight[p].pc = "caught"
    /\ inflight' = [inflight EXCEPT ![p] = CatchBlock(@)]
    /\ UNCHANGED <<productVars, orderVars, inventoryVars, retryVars, stepVars>>

\* orderSyncFlow.onExecution with a payload: orderData is read, the webhook branch taken
OrderReceive(p) ==
    /\ inflight[p].flow = "order"
    /\ inflight[p].pc = "idle"
    /\ \E orderData \in ShopifyOrderData :
          inflight' = [inflight EXCEPT ![p].pc = "classified",
                                       ![p].topic = "order",
                                       ![p].id = orderData.id,
                                       ![p].value = orderData.displayFinancialStatus]
    /\ UNCHANGED <<productVars, orderVars, inventoryVars, retryVars, stepVars>>

\* processOrderWebhook: await findOrderByExternalId(nauticalConn, orderData.id)
OrderFind(p) ==
    /\ inflight[p].flow = "order"
    /\ inflight[p].pc = "classified"
    /\ \E findResp \in {"ok", "httpError"} :
          LET existingOrder == findOrderByExternalId(nauticalOrders, inflight[p].id)
          IN  inflight' = [inflight EXCEPT ![p] =
                  IF findResp # "ok" THEN Finished(@, "caught", "none")
                  ELSE [@ EXCEPT !.pc = "write", !.existing = existingOrder.id]]
    /\ UNCHANGED <<productVars, orderVars, inventoryVars, retryVars, stepVars>>

\* processOrderWebhook: await updateOrder(...) or await createOrder(...)
OrderWrite(p) ==
    LET call == inflight[p]
        mutation == IF call.existing # 0 THEN "orderUpdate" ELSE "orderCreate"
        orderData == [id |-> call.id, displayFinancialStatus |-> call.value]
    IN  /\ call.flow = "order"
        /\ call.pc = "write"
        /\ \E writeResp \in Responses :
              IF writeResp # "ok"
              THEN /\ inflight' = [inflight EXCEPT ![p] = Finished(@, "caught", mutation)]
                   /\ UNCHANGED <<nauticalOrders, nextOrderId>>
              ELSE /\ mutation = "orderCreate" => nextOrderId <= MaxOrderIds
                   /\ inflight' = [inflight EXCEPT ![p] = Finished(@, "handled", mutation)]
                   /\ nauticalOrders' =
                         IF mutation = "orderCreate"
                         THEN createOrder(nauticalOrders, nextOrderId, orderData)
                         ELSE updateOrder(nauticalOrders, call.existing, orderData)
                   /\ nextOrderId' = IF mutation = "orderCreate" THEN nextOrderId + 1
                                     ELSE nextOrderId
        /\ UNCHANGED <<shopifyOrders, orderRun>>
        /\ UNCHANGED <<productVars, inventoryVars, retryVars, stepVars>>

\* logInfo("Successfully processed order webhook"); return {data: {success: true}}
OrderReturn(p) ==
    /\ inflight[p].flow = "order"
    /\ inflight[p].pc = "handled"
    /\ inflight' = [inflight EXCEPT ![p].pc = "acknowledged", ![p].logged = "info"]
    /\ UNCHANGED <<productVars, orderVars, inventoryVars, retryVars, stepVars>>

\* catch (error) { logError(context, "Order sync failed", ...); throw formattedError }
OrderCatch(p) ==
    /\ inflight[p].flow = "order"
    /\ inflight[p].pc = "caught"
    /\ inflight' = [inflight EXCEPT ![p] = CatchBlock(@)]
    /\ UNCHANGED <<productVars, orderVars, inventoryVars, retryVars, stepVars>>

\* no invocation in flight
NoneInFlight == inflight = [p \in Invocations |-> Waiting("none")]

\* deliveries of one flow are about to arrive together
OverlapInit == inflight \in {[p \in Invocations |-> Waiting(flow)] : flow \in {"product", "order"}}

(***************************************************************************)
(* Inventory Sync, statement by statement: the read of both listings, the  *)
(* computation of the updates, then the writes of Promise.all one by one   *)
(***************************************************************************)
NoWrite == [variantId |-> NoVariant, quantity |-> 0, held |-> 0]

NoPending == [pc |-> "idle", updates |-> <<>>, written |-> NoWrite]

RemoveAt(seq, u) == SubSeq(seq, 1, u - 1) \o SubSeq(seq, u + 1, Len(seq))

\* fetchShopifyInventory, fetchNauticalInventory, calculateInventoryUpdates
SyncRead ==
    /\ syncPending.pc = "idle"
    /\ syncPending' = [pc |-> "computed",
                       updates |-> calculateInventoryUpdates(shopifyInventory,
                                                             nauticalInventory),
                       written |-> NoWrite]
    /\ UNCHANGED <<inventoryVars, evaluation, paging>>
    /\ UNCHANGED <<productVars, orderVars, retryVars, inflight>>

\* One updateNauticalInventory of applyInventoryUpdates reaches the target:
\* the variant's quantity is set to update.targetQuantity.  written keeps what
\* the variant held when the write arrived.
SyncApply ==
    /\ syncPending.pc = "computed"
    /\ \E u \in 1..Len(syncPending.updates) :
          LET update == syncPending.updates[u]
              hit == {k \in 1..Len(nauticalInventory) :
                         nauticalInventory[k].variantId = update.nauticalVariantId}
          IN  \E k \in hit :
                /\ nauticalInventory' =
                      [nauticalInventory EXCEPT ![k].quantity = update.targetQuantity]
                /\ syncPending' =
                      [syncPending EXCEPT
                          !.updates = RemoveAt(@, u),
                          !.written = [variantId |-> update.nauticalVariantId,
                                       quantity |-> update.targetQuantity,
                                       held |-> nauticalInventory[k].quantity]]
    /\ UNCHANGED <<shopifyInventory, inventoryRun, cleanBefore, evaluation, paging>>
    /\ UNCHANGED <<productVars, orderVars, retryVars, inflight>>

\* every write has settled: the run returns
SyncReturn ==
    /\ syncPending.pc = "computed"
    /\ syncPending.updates = <<>>
    /\ syncPending' = [syncPending EXCEPT !.pc = "idle"]
    /\ UNCHANGED <<inventoryVars, evaluation, paging>>
    /\ UNCHANGED <<productVars, orderVars, retryVars, inflight>>

NoSyncPending == syncPending = NoPending

(***************************************************************************)
(* Functions applied to one input                                          *)
(***************************************************************************)
\* Values a field of a source product can hold, as JavaScript writes them
JSValues == {"undefined", "''", "0", "false", "'Acme'"}

\* what if (value) lets through
Truthy(value) == value \notin {"undefined", "''", "0", "false"}

ProductFields == {"vendor", "productType"}

NauticalAttributes == {"brand", "kind"}

MappedProducts == [ProductFields -> JSValues]

AttributeMappings ==
    UNION {[1..n -> [shopifyAttribute : ProductFields,
                     nauticalAttribute : NauticalAttributes]] : n \in 0..MaxMappings}

\* const attributes = {}: no key written yet
NoAttributes == [a \in NauticalAttributes |-> "absent"]

\* extractAttributes of utils/dataTransformation.ts
RECURSIVE extractAttributes(_, _)
extractAttributes(shopifyProduct, attributeMappings) ==
    IF attributeMappings = <<>> THEN NoAttributes
    ELSE LET n == Len(attributeMappings)
             mapping == attributeMappings[n]
             attributes == extractAttributes(shopifyProduct, SubSeq(attributeMappings, 1, n - 1))
         IN  IF Truthy(shopifyProduct[mapping.shopifyAttribute])
             THEN [attributes EXCEPT ![mapping.nauticalAttribute] =
                                         shopifyProduct[mapping.shopifyAttribute]]
             ELSE attributes

\* mappedAttributes of the first transformProducts of flows/productImport.ts
RECURSIVE mappedAttributes(_, _)
mappedAttributes(product, mappings) ==
    IF mappings = <<>> THEN NoAttributes
    ELSE LET n == Len(mappings)
             mapping == mappings[n]
             attributes == mappedAttributes(product, SubSeq(mappings, 1, n - 1))
             shopifyValue == product[mapping.shopifyAttribute]
         IN  IF shopifyValue # "undefined"
             THEN [attributes EXCEPT ![mapping.nauticalAttribute] = shopifyValue]
             ELSE attributes

\* Financial statuses an order can arrive with: the seven of the table, one
\* the table lacks, a lower-case one, and names every object inherits
FinancialStatuses == StatusMapKeys \cup {"EXPIRED", "paid"} \cup ObjectPrototypeKeys

\* What axios.get of the item listing does: a body of items, or a rejection
ItemLists == UNION {[1..n -> {"item1", "item2"}] : n \in 0..MaxItems}

FetchOutcomes ==
    [ok : {TRUE}, data : ItemLists, error : {"none"}]
        \cup [ok : {FALSE}, data : {<<>>}, error : {"Network Error", "status code 500"}]

fetchItemsFlow_SwallowsError(response) ==
    [outcome |-> "returned",
     keys |-> IF response.ok THEN {"items", "message"} ELSE {"message"},
     items |-> response.data,
     message |-> <<"Successfully fetched", Len(response.data), "items from Shopify">>,
     errorLog |-> IF response.ok THEN <<>> ELSE <<"Error fetching items", response.error>>,
     thrown |-> "none"]

\* fetchItemsFlow.onExecution, given what its axios.get does
fetchItemsFlow(response) ==
    IF response.ok
    THEN [outcome |-> "returned",
          keys |-> {"items", "message"},
          items |-> response.data,
          message |-> <<"Successfully fetched", Len(response.data), "items from Shopify">>,
          errorLog |-> <<>>,
          thrown |-> "none"]
    ELSE [outcome |-> "thrown",
          keys |-> {},
          items |-> <<>>,
          message |-> <<>>,
          errorLog |-> <<"Error fetching items", response.error>>,
          thrown |-> response.error]

Applied(fn, input, output) == [fn |-> fn, input |-> input, done |-> TRUE, output |-> output]

Drawn(fn, input) == [fn |-> fn, input |-> input, done |-> FALSE, output |-> "none"]

NoEvaluation == Drawn("none", "none")

NoneEvaluated == evaluation = NoEvaluation

EvaluationInit ==
    \/ \E fn \in {"extractAttributes", "mappedAttributes"} :
       \E product \in MappedProducts, mappings \in AttributeMappings :
          evaluation = Drawn(fn, [product |-> product, mappings |-> mappings])
    \/ \E status \in FinancialStatuses :
          evaluation = Drawn("mapShopifyStatusToNautical", status)
    \/ \E response \in FetchOutcomes :
          evaluation = Drawn("fetchItemsFlow", response)

ApplyExtractAttributes ==
    /\ evaluation.fn = "extractAttributes"
    /\ ~evaluation.done
    /\ evaluation' = Applied(evaluation.fn, evaluation.input,
                             extractAttributes(evaluation.input.product,
                                               evaluation.input.mappings))
    /\ UNCHANGED <<productVars, orderVars, inventoryVars, retryVars, inflight, syncPending, paging>>

ApplyMappedAttributes ==
    /\ evaluation.fn = "mappedAttributes"
    /\ ~evaluation.done
    /\ evaluation' = Applied(evaluation.fn, evaluation.input,
                             mappedAttributes(evaluation.input.product,
                                              evaluation.input.mappings))
    /\ UNCHANGED <<productVars, orderVars, inventoryVars, retryVars, inflight, syncPending, paging>>

ApplyMapShopifyStatusToNautical ==
    /\ evaluation.fn = "mapShopifyStatusToNautical"
    /\ ~evaluation.done
    /\ evaluation' = Applied(evaluation.fn, evaluation.input,
                             mapShopifyStatusToNautical(evaluation.input))
    /\ UNCHANGED <<productVars, orderVars, inventoryVars, retryVars, inflight, syncPending, paging>>

ApplyFetchItemsFlow ==
    /\ evaluation.fn = "fetchItemsFlow"
    /\ ~evaluation.done
    /\ evaluation' = Applied(evaluation.fn, evaluation.input,
                             fetchItemsFlow(evaluation.input))
    /\ UNCHANGED <<productVars, orderVars, inventoryVars, retryVars, inflight, syncPending, paging>>

(***************************************************************************)
(* The listing fetches, request by request                                 *)
(***************************************************************************)
\* let cursor = null
NullCursor == 0

\* The source's listing as it serves it: page p carries its nodes, says
\* whether a page follows, and gives the cursor that leads to that page
PageListings ==
    UNION { { [p \in 1..n |-> [nodes |-> nodes[p], hasNextPage |-> p < n, endCursor |-> p]] :
              nodes \in [1..n -> {<<>>, <<"first">>, <<"first", "second">>}] } :
            n \in 1..MaxPages }

\* the page the source answers a request with: the first for a request without
\* cursor (or with null), else the one after the cursor
PageAfter(pages, cursor) == pages[cursor + 1]

ListingFlows == {"productImport", "inventorySync", "orderSync"}

\* the locals at the entry of a fetch: hasNextPage = true, cursor = null,
\* products = []
FetchEntry(flow, pages) ==
    [flow |-> flow, pages |-> pages, pc |-> "loop", hasNextPage |-> TRUE,
     cursor |-> NullCursor, requested |-> <<>>, responses |-> <<>>, products |-> <<>>]

NoFetch == [FetchEntry("none", <<>>) EXCEPT !.pc = "idle"]

NotPaging == paging = NoFetch

PagingInit == \E flow \in ListingFlows, pages \in PageListings : paging = FetchEntry(flow, pages)

WhileCondition_FirstPageOnly(hasNextPage, requested) == requested = <<>>

\* while (hasNextPage)
WhileCondition(hasNextPage, requested) == hasNextPage

\* fetchAllShopifyProducts: one turn of the loop.  The request either fails
\* for good (withRetry gives up, the catch throws) or is answered with a page.
FetchProductsPage ==
    /\ paging.flow = "productImport"
    /\ paging.pc = "loop"
    /\ WhileCondition(paging.hasNextPage, paging.requested)
    /\ \E answered \in BOOLEAN :
          IF answered
          THEN LET data == PageAfter(paging.pages, paging.cursor)
               IN  paging' = [paging EXCEPT
                                 !.requested = Append(@, paging.cursor),
                                 !.responses = Append(@, data),
                                 !.products = @ \o data.nodes,
                                 !.hasNextPage = data.hasNextPage,
                                 !.cursor = data.endCursor]
          ELSE paging' = [paging EXCEPT !.requested = Append(@, paging.cursor),
                                        !.pc = "thrown"]
    /\ UNCHANGED <<productVars, orderVars, inventoryVars, retryVars, inflight,
                   syncPending, evaluation>>

\* fetchAllShopifyProducts: the loop is left and products is returned
FetchProductsReturn ==
    /\ paging.flow = "productImport"
    /\ paging.pc = "loop"
    /\ ~WhileCondition(paging.hasNextPage, paging.requested)
    /\ paging' = [paging EXCEPT !.pc = "returned"]
    /\ UNCHANGED <<productVars, orderVars, inventoryVars, retryVars, inflight,
                   syncPending, evaluation>>

\* fetchShopifyInventory: one request, whose query has no cursor variable; its
\* edges are mapped and returned
fetchShopifyInventory ==
    /\ paging.flow = "inventorySync"
    /\ paging.pc = "loop"
    /\ \E answered \in BOOLEAN :
          IF answered
          THEN LET data == PageAfter(paging.pages, NullCursor)
               IN  paging' = [paging EXCEPT
                                 !.requested = Append(@, NullCursor),
                                 !.responses = Append(@, data),
                                 !.products = data.nodes,
                                 !.hasNextPage = data.hasNextPage,
                                 !.pc = "returned"]
          ELSE paging' = [paging EXCEPT !.requested = Append(@, NullCursor),
                                        !.pc = "thrown"]
    /\ UNCHANGED <<productVars, orderVars, inventoryVars, retryVars, inflight,
                   syncPending, evaluation>>

\* getRecentShopifyOrders: one request, likewise
getRecentShopifyOrders ==
    /\ paging.flow = "orderSync"
    /\ paging.pc = "loop"
    /\ \E answered \in BOOLEAN :
          IF answered
          THEN LET data == PageAfter(paging.pages, NullCursor)
               IN  paging' = [paging EXCEPT
                                 !.requested = Append(@, NullCursor),
                                 !.responses = Append(@, data),
                                 !.products = data.nodes,
                                 !.hasNextPage = data.hasNextPage,
                                 !.pc = "returned"]
          ELSE paging' = [paging EXCEPT !.requested = Append(@, NullCursor),
                                        !.pc = "thrown"]
    /\ UNCHANGED <<productVars, orderVars, inventoryVars, retryVars, inflight,
                   syncPending, evaluation>>

(***************************************************************************)
(* Specifications                                                          *)
(***************************************************************************)
\* Product webhook deliveries only (the source catalogue is never read)
WebhookInit ==
    ProductIdle /\ OrderIdle /\ InventoryIdle /\ RetryIdle /\ NoneInFlight /\ NoSyncPending /\ NoneEvaluated /\ NotPaging
SpecWebhook == WebhookInit /\ [][ProductUpdateWebhook]_vars

\* Product webhook deliveries and Product Import runs
ProductsInit ==
    ProductInit /\ OrderIdle /\ InventoryIdle /\ RetryIdle /\ NoneInFlight /\ NoSyncPending /\ NoneEvaluated /\ NotPaging
NextProducts == ProductUpdateWebhook \/ ProductImport
SpecProducts == ProductsInit /\ [][NextProducts]_vars

FirstProductUpdateWebhook == webhookCall = NoCall /\ ProductUpdateWebhook

\* Product Import runs and the first product webhook delivery: the flows that
\* read the stored mapping state
NextMappingReaders == ProductImport \/ FirstProductUpdateWebhook
SpecMappingReaders == ProductsInit /\ [][NextMappingReaders]_vars

\* The same with uses of the Create Product component action
NextProductWrites == ProductImport \/ ComponentCreateProduct \/ FirstProductUpdateWebhook
SpecProductWrites == ProductsInit /\ [][NextProductWrites]_vars

\* Order Sync invocations, webhook and bulk, and source status changes
OrdersInit ==
    ProductIdle /\ OrderInit /\ InventoryIdle /\ RetryIdle /\ NoneInFlight /\ NoSyncPending /\ NoneEvaluated /\ NotPaging
NextOrders == OrderSyncWebhook \/ OrderSyncBulk \/ ShopifyOrderStatusChange
SpecOrders == OrdersInit /\ [][NextOrders]_vars

\* Inventory Sync runs between stock changes made by others
InventoryOnlyInit ==
    ProductIdle /\ OrderIdle /\ InventoryInit /\ RetryIdle /\ NoneInFlight /\ NoSyncPending /\ NoneEvaluated /\ NotPaging
NextInventory == InventorySync \/ StockChange
SpecInventory == InventoryOnlyInit /\ [][NextInventory]_vars

\* One call of withRetry, from entry to return or throw
RetryOnlyInit ==
    ProductIdle /\ OrderIdle /\ InventoryIdle /\ RetryInit /\ NoneInFlight /\ NoSyncPending /\ NoneEvaluated /\ NotPaging
NextRetry == RetryCall \/ RetryLog \/ RetrySleep \/ RetryThrow
SpecRetry == RetryOnlyInit /\ [][NextRetry]_vars

\* Product and order webhook invocations that overlap
OverlappingInit ==
    ProductIdle /\ OrderIdle /\ InventoryIdle /\ RetryIdle /\ OverlapInit /\ NoSyncPending /\ NoneEvaluated /\ NotPaging
NextOverlapping ==
    \E p \in Invocations :
        \/ WebhookReceive(p) \/ WebhookClassify(p) \/ WebhookIgnore(p) \/ WebhookFind(p)
        \/ WebhookWrite(p) \/ WebhookAcknowledge(p) \/ WebhookCatch(p)
        \/ OrderReceive(p) \/ OrderFind(p) \/ OrderWrite(p) \/ OrderReturn(p) \/ OrderCatch(p)
SpecOverlapping == OverlappingInit /\ [][NextOverlapping]_vars

\* An Inventory Sync run, statement by statement, between stock changes made
\* by others
InventoryStepsInit ==
    ProductIdle /\ OrderIdle /\ InventoryInit /\ RetryIdle /\ NoneInFlight /\ NoSyncPending /\ NoneEvaluated /\ NotPaging
NextInventorySteps == SyncRead \/ SyncApply \/ SyncReturn \/ StockChange
SpecInventorySteps == InventoryStepsInit /\ [][NextInventorySteps]_vars

\* One function applied to one input
FunctionsInit ==
    ProductIdle /\ OrderIdle /\ InventoryIdle /\ RetryIdle /\ NoneInFlight /\ NoSyncPending /\ EvaluationInit /\ NotPaging
NextFunctions ==
    \/ ApplyExtractAttributes \/ ApplyMappedAttributes
    \/ ApplyMapShopifyStatusToNautical \/ ApplyFetchItemsFlow
SpecFunctions == FunctionsInit /\ [][NextFunctions]_vars

\* One fetch of a source listing, from entry to return or throw
PagingOnlyInit ==
    ProductIdle /\ OrderIdle /\ InventoryIdle /\ RetryIdle /\ NoneInFlight /\ NoSyncPending /\ NoneEvaluated /\ PagingInit
NextPaging ==
    FetchProductsPage \/ FetchProductsReturn \/ fetchShopifyInventory \/ getRecentShopifyOrders
SpecPaging == PagingOnlyInit /\ [][NextPaging]_vars

\* The same, given that a fetch that can take a step does take one
SpecPagingFair == SpecPaging /\ WF_vars(NextPaging)

\* One productCreate of Product Import under withRetry, attempt by attempt
RetriedCreateInit ==
    /\ nauticalProducts = <<>>
    /\ nextProductId = 1
    /\ shopifyCatalog \in {c \in Catalogs : Len(c) = 1}
    /\ webhookCall = NoCall
    /\ importRun = NoImport
    /\ OrderIdle /\ InventoryIdle /\ RetryInit
    /\ NoneInFlight /\ NoSyncPending /\ NoneEvaluated /\ NotPaging
NextRetriedCreate == RetryCallProductCreate \/ RetryLog \/ RetrySleep \/ RetryThrow
SpecRetriedCreate == RetriedCreateInit /\ [][NextRetriedCreate]_vars

Init ==
    ProductIdle /\ OrderIdle /\ InventoryIdle /\ RetryIdle /\ NoneInFlight /\ NoSyncPending /\ NoneEvaluated /\ NotPaging
Next ==
    \/ NextProducts \/ ComponentCreateProduct \/ NextOrders \/ NextInventory \/ NextRetry
    \/ NextOverlapping \/ NextInventorySteps \/ NextFunctions \/ NextPaging
    \/ RetryCallProductCreate
Spec == Init /\ [][Next]_vars

(***************************************************************************)
(* Claims                                                                  *)
(***************************************************************************)
ProductsWith(externalId) ==
    {i \in 1..Len(nauticalProducts) : nauticalProducts[i].externalId = externalId}

AtMostOneProductPerExternalId ==
    \A x \in SourceProductIds : Cardinality(ProductsWith(x)) <= 1

\* C1: over non-overlapping products/create and products/update deliveries
\* (redeliveries included) the target holds at most one product per source
\* product id; productCreate is issued only when the finder returned nothing,
\* and otherwise productUpdate is issued on the found record.
C1_WebhookUpsertIdempotent ==
    /\ []AtMostOneProductPerExternalId
    /\ [][ /\ webhookCall'.topic \in {"products/create", "products/update"}
           /\ webhookCall'.mutation # "none"
           => LET matching == ProductsWith(webhookCall'.productId)
              IN  /\ webhookCall'.mutation = "productCreate" <=> matching = {}
                  /\ webhookCall'.mutation = "productUpdate" <=>
                        /\ matching # {}
                        /\ webhookCall'.target = nauticalProducts[Min(matching)].id
       ]_<<nauticalProducts, webhookCall>>

\* a redelivered create/update found the product of the first delivery and updated it
C1_Witness ==
    /\ webhookCall.topic = "products/create"
    /\ webhookCall.mutation = "productUpdate"
    /\ webhookCall.result = "success"
    /\ Cardinality(ProductsWith(webhookCall.productId)) = 1

\* C2: after any sequence of product-writing flow invocations (Product Import
\* runs and product webhook events) the target holds at most one product per
\* source externalId.
C2_AtMostOneProductAfterAnyFlow ==
    \A x \in SourceProductIds : Cardinality(ProductsWith(x)) < 2

OrdersWith(externalId) ==
    {i \in 1..Len(nauticalOrders) : nauticalOrders[i].externalId = externalId}

\* C3: processing the same source order twice in immediate succession with no
\* status change in between, through the bulk pass or the webhook path, issues
\* neither orderCreate nor orderUpdate the second time.
C3_SecondProcessingIsSkip ==
    [][\A i \in 1..Len(orderRun'.items) :
          ProcessedIn(orderRun, orderRun'.items[i]) => orderRun'.items[i].mutation = "none"
      ]_<<nauticalOrders, orderRun>>

\* C4: after any sequence of non-overlapping Order Sync invocations (bulk
\* passes, webhook events, redeliveries) the target holds at most one order
\* per source order id.
C4_AtMostOneOrderPerExternalId ==
    \A x \in SourceOrderIds : Cardinality(OrdersWith(x)) <= 1

\* an order created by one path was found again by a later invocation
C4_Witness ==
    /\ orderRun.path = "webhook"
    /\ orderRun.items[1].mutation = "orderUpdate"
    /\ orderRun.items[1].ok
    /\ Cardinality(OrdersWith(orderRun.items[1].orderId)) = 1
    /\ Len(nauticalOrders) = 2

\* the source items the reconciler considers: with a sku and a variant id
Reconciled(shopifyItem) == shopifyItem.sku # NoSku /\ shopifyItem.variantId # NoVariant

UpdatesFor(updates, shopifyItem) ==
    {i \in 1..Len(updates) : /\ updates[i].sku = shopifyItem.sku
                             /\ updates[i].shopifyVariantId = shopifyItem.variantId}

CurrentUpdates == calculateInventoryUpdates(shopifyInventory, nauticalInventory)

\* C5: for every sku on both platforms whose source total differs from the
\* target quantity an update is emitted whose resolved quantity is the
\* minimum of the two (source 5, target 8: an update recording 8 and 5).
C5_DifferingQuantitiesEmitMin ==
    \A i \in 1..Len(shopifyInventory) :
        LET shopifyItem == shopifyInventory[i]
            nauticalItem == MapGetBySku(nauticalInventory, shopifyItem.sku)
            total == SumLevels(shopifyItem.levels)
        IN  Reconciled(shopifyItem) /\ nauticalItem # NoItem /\ total # nauticalItem.quantity
            => \E u \in UpdatesFor(CurrentUpdates, shopifyItem) :
                  /\ CurrentUpdates[u].shopifyQuantity = total
                  /\ CurrentUpdates[u].nauticalQuantity = nauticalItem.quantity
                  /\ CurrentUpdates[u].targetQuantity = MathMin(total, nauticalItem.quantity)

PlatformsAgree ==
    \A i \in 1..Len(shopifyInventory) :
        LET shopifyItem == shopifyInventory[i]
            nauticalItem == MapGetBySku(nauticalInventory, shopifyItem.sku)
        IN  Reconciled(shopifyItem) /\ nauticalItem # NoItem
            => SumLevels(shopifyItem.levels) = nauticalItem.quantity

\* C7: after an Inventory Sync run whose writes all succeed, with no stock
\* change by anyone else, the immediately following run computes an empty
\* update set: the platforms agree on every sku listed on both.
C7_SecondRunHasNothingToDo ==
    cleanBefore /\ inventoryRun.result # "none"
    => inventoryRun.updatesApplied = 0 /\ PlatformsAgree

AllAttemptsFailed == \A k \in 1..Len(attempts) : attempts[k].outcome # Fulfilled

\* C8: with an operation that fails on every attempt withRetry invokes it
\* exactly maxRetries times and then throws the exhaustion error, which
\* carries the last underlying error (its message).
C8_ExhaustionAfterMaxAttempts ==
    /\ retryPc \in {"throw", "thrown"} =>
          /\ AllAttemptsFailed
          /\ Len(attempts) = maxRetries
    /\ retryPc = "thrown" =>
          /\ thrown.message[1] = "Failed after"
          /\ thrown.message[2] = maxRetries
          /\ maxRetries >= 1 => thrown.message[4] = attempts[maxRetries].outcome.message
    /\ retryPc \notin {"returned", "throw", "thrown"} => Len(attempts) <= maxRetries

\* the default three attempts all failed, the last one with a 500
C8_Witness ==
    /\ retryPc = "thrown"
    /\ maxRetries = DefaultMaxRetries
    /\ Len(attempts) = 3
    /\ attempts[3].outcome = AxiosError(500)
    /\ attempts[1].outcome = NetworkError

\* C9: the wait before attempt j (j >= 2) is delay * 2^(j-2), and it is the
\* only wait between attempts j-1 and j.
C9_ExponentialBackoff ==
    \A j \in 1..Len(attempts) :
        /\ attempts[j].waitsBefore = j - 1
        /\ j >= 2 => attempts[j].waitedBefore = delay * Pow2(j - 2)

\* a third attempt was made, after waits of 1000 and 2000
C9_Witness ==
    /\ delay = DefaultDelay
    /\ Len(attempts) = 3
    /\ attempts[2].waitedBefore = 1000
    /\ attempts[3].waitedBefore = 2000

IsAuthenticationError(error) == error.response /\ error.status \in AuthenticationStatuses

\* C10: an operation that fails with an authentication error (401/403) is not
\* attempted again: it is invoked once and the failure is surfaced at once as
\* an authentication error.
C10_AuthenticationErrorNotRetried ==
    /\ \A k \in 1..Len(attempts) :
          IsAuthenticationError(attempts[k].outcome) => k = 1 /\ Len(attempts) = 1
    /\ retryPc = "thrown" /\ IsAuthenticationError(lastError) =>
          handleApiError(thrown).class = "Authentication error"

\* C11: a remote write of the flows whose request fails with a transient
\* (HTTP) error is sent again under withRetry, DefaultMaxRetries times in
\* all, before the delivery is reported failed.
C11_WritesRunUnderRetry ==
    webhookCall.mutation \in RemoteWrites /\ webhookCall.response = "httpError"
        => webhookCall.sent = DefaultMaxRetries

\* C13: a delivery whose topic is none of the three product topics never
\* raises, whatever the payload and the stored mapping configuration: it is
\* ignored, no remote call is made, and it is acknowledged as success.
C13_UnsupportedTopicNeverRaises ==
    webhookCall.sentTopic \in Topics \ ProductTopics
        => /\ webhookCall.result = "success"
           /\ webhookCall.lookup = "none"
           /\ webhookCall.mutation = "none"

\* C14: a products/delete delivery whose lookup finds no target product for
\* the externalId ends in success without a productDelete mutation; so does
\* the redelivery that follows a successful delete of that product.
C14_DeleteOfAbsentProductSucceeds ==
    /\ [][ /\ webhookCall'.topic = "products/delete"
           /\ webhookCall'.lookup = "ok"
           /\ ProductsWith(webhookCall'.productId) = {}
           => /\ webhookCall'.result = "success"
              /\ webhookCall'.mutation = "none"
              /\ webhookCall'.sent = 0
       ]_<<nauticalProducts, webhookCall>>
    /\ [][ /\ webhookCall.mutation = "productDelete"
           /\ webhookCall.result = "success"
           /\ webhookCall'.topic = "products/delete"
           /\ webhookCall'.productId = webhookCall.productId
           /\ webhookCall'.lookup = "ok"
           => /\ webhookCall'.result = "success"
              /\ webhookCall'.mutation = "none"
       ]_<<nauticalProducts, webhookCall>>

\* both source products were created and deleted again, and one more
\* products/delete found nothing and succeeded
C14_Witness ==
    /\ webhookCall.topic = "products/delete"
    /\ webhookCall.lookup = "ok"
    /\ webhookCall.found = 0
    /\ webhookCall.mutation = "none"
    /\ webhookCall.result = "success"
    /\ nextProductId = 3
    /\ nauticalProducts = <<>>

\* C19: the topic header is read whatever the letter case of its name: the
\* delivery is classified by the topic it carries.
C19_TopicHeaderCaseInsensitive ==
    webhookCall.header \in HeaderNames => webhookCall.topic = webhookCall.sentTopic

\* C20: a mutation answered with non-empty userErrors is sent exactly once and
\* the failure is surfaced as a validation error.
C20_ValidationFailureNotRetried ==
    webhookCall.response = "userErrors"
        => /\ webhookCall.sent = 1
           /\ webhookCall.result = "error"
           /\ webhookCall.error = "Validation error"

\* C12: a target mutation answered with a top-level errors array or with
\* non-empty operation-level errors counts as failed: the invocation that
\* sent it raises.  The variant-quantity update of Inventory Sync included.
C12_ErrorsInResponseFailTheOperation ==
    /\ webhookCall.response \in {"errors", "userErrors"} => webhookCall.result = "error"
    /\ inventoryRun.rejectedWrites > 0 => inventoryRun.result = "error"

\* C15: an Inventory Sync run in which the quantity write of one sku fails
\* still completes: the failure is caught and logged, the run does not fail.
C15_FailedSkuDoesNotFailTheRun ==
    inventoryRun.failedWrites > 0 => inventoryRun.result = "success"

\* a count of the reported result; a count the result does not carry reads as 0
ReportedCount(results, name) == IF name \in DOMAIN results THEN results[name] ELSE 0

\* C16: a bulk Order Sync pass processes every fetched order exactly once, in
\* listing order, whatever fails on the way, and the counts it reports
\* (created, updated, skipped, failed) sum to the number of fetched orders.
C16_BulkCountsSumToTotal ==
    orderRun.path = "bulk" /\ orderRun.result = "success"
        => /\ Len(orderRun.items) = Len(shopifyOrders)
           /\ \A i \in 1..Len(orderRun.items) : orderRun.items[i].orderId = shopifyOrders[i].id
           /\ orderRun.results.total = Len(shopifyOrders)
           /\ ReportedCount(orderRun.results, "created")
                + ReportedCount(orderRun.results, "updated")
                + ReportedCount(orderRun.results, "skipped")
                + ReportedCount(orderRun.results, "failed") = orderRun.results.total

\* the invocation's handler has returned without throwing
Returned(call) == call.pc \in {"handled", "acknowledged"}

\* the target records carrying the source id the invocation was about
RecordsFor(call) ==
    IF call.flow = "product" THEN ProductsWith(call.id) ELSE OrdersWith(call.id)

\* C17: when two overlapping invocations for one source id have both seen
\* "not found" and both sent CREATE, both creates are carried out: the
\* target holds two records with that externalId and neither invocation
\* has failed.
C17_OverlappingCreatesBothSucceed ==
    \A p, q \in Invocations :
        /\ p # q
        /\ inflight[p].flow = inflight[q].flow
        /\ inflight[p].id = inflight[q].id
        /\ inflight[p].mutation \in {"productCreate", "orderCreate"}
        /\ inflight[q].mutation \in {"productCreate", "orderCreate"}
        /\ Returned(inflight[p])
        /\ Returned(inflight[q])
        => Cardinality(RecordsFor(inflight[p])) = 2

\* two products/create deliveries for source product 1 both created a product
\* and both were acknowledged
C17_Witness ==
    /\ \A p \in Invocations :
          /\ inflight[p].flow = "product"
          /\ inflight[p].pc = "acknowledged"
          /\ inflight[p].mutation = "productCreate"
          /\ inflight[p].id = 1
    /\ Cardinality(ProductsWith(1)) = 2

\* the observable state of a product webhook delivery
Observable(call) ==
    CASE call.pc = "received" -> "RECEIVED"
      [] call.pc \in {"classified", "write"} -> "CLASSIFIED"
      [] call.pc = "handled" ->
            IF call.topic \notin ProductTopics THEN "IGNORED"
            ELSE IF call.topic = "products/delete" THEN "DELETED" ELSE "UPSERTED"
      [] call.pc = "acknowledged" -> "ACKNOWLEDGED"
      [] call.pc = "caught" -> "RAISED"
      [] call.pc = "failed" -> "FAILED"
      [] OTHER -> "NONE"

\* C18: a product webhook delivery passes RECEIVED, CLASSIFIED, exactly one
\* of UPSERTED, DELETED, IGNORED and then ACKNOWLEDGED, in that order; a
\* delivery whose handler raised is never acknowledged: the error is logged
\* and thrown on to the host.
C18_WebhookEventLifecycle ==
    [][\A p \in Invocations :
          LET before == Observable(inflight[p])
              after == Observable(inflight'[p])
          IN  inflight[p].flow = "product" /\ inflight'[p] # inflight[p]
              => /\ after = "RECEIVED" => before = "NONE"
                 /\ after = "CLASSIFIED" => before \in {"RECEIVED", "CLASSIFIED"}
                 /\ after \in {"UPSERTED", "DELETED", "IGNORED"} => before = "CLASSIFIED"
                 /\ after = "ACKNOWLEDGED" =>
                       /\ before \in {"UPSERTED", "DELETED", "IGNORED"}
                       /\ inflight'[p].logged = "info"
                 /\ before = "RAISED" => after = "FAILED" /\ inflight'[p].logged = "error"
                 /\ after = "RAISED" => before = "CLASSIFIED"
                 /\ before \in {"UPSERTED", "DELETED", "IGNORED"} => after = "ACKNOWLEDGED"
                 /\ before \notin {"ACKNOWLEDGED", "FAILED"}
      ]_inflight

\* one delivery created the product and was acknowledged; the other found
\* that product, its productUpdate raised, and the delivery failed with the
\* error logged
C18_Witness ==
    /\ inflight["first"].flow = "product"
    /\ Observable(inflight["first"]) = "ACKNOWLEDGED"
    /\ inflight["first"].mutation = "productCreate"
    /\ inflight["first"].logged = "info"
    /\ Observable(inflight["second"]) = "FAILED"
    /\ inflight["second"].mutation = "productUpdate"
    /\ inflight["second"].logged = "error"

\* C27: every quantity write Inventory Sync sends to a target variant sets a
\* quantity that differs from the one the target reported for that variant
\* in the same run.
C27_NoNoOpWrites ==
    \A u \in 1..Len(CurrentUpdates) :
        CurrentUpdates[u].targetQuantity # CurrentUpdates[u].nauticalQuantity

SkusOf(items) == {items[i].sku : i \in 1..Len(items)} \ {NoSku}

OlderUpdates == calculateInventoryUpdates_dataTransformation(shopifyInventory, nauticalInventory)

\* the listing's records: which variant, under which sku, at which position
RecordsOf(items) == [i \in 1..Len(items) |-> <<items[i].sku, items[i].variantId>>]

\* C29: no update is emitted for a sku listed on one platform only, nor for
\* an item without a sku (by the flow's reconciler and by its older copy);
\* an Inventory Sync run leaves the records of both platforms as they are.
C29_NoUpdateForOneSidedSku ==
    /\ [](\A u \in 1..Len(CurrentUpdates) :
            /\ CurrentUpdates[u].sku \in SkusOf(shopifyInventory) \cap SkusOf(nauticalInventory)
            /\ CurrentUpdates[u].nauticalVariantId # NoVariant)
    /\ [](\A u \in 1..Len(OlderUpdates) :
            /\ OlderUpdates[u].sku \in SkusOf(shopifyInventory) \cap SkusOf(nauticalInventory)
            /\ OlderUpdates[u].nauticalVariantId # NoVariant)
    /\ [][ /\ RecordsOf(shopifyInventory') = RecordsOf(shopifyInventory)
           /\ RecordsOf(nauticalInventory') = RecordsOf(nauticalInventory)
       ]_<<shopifyInventory, nauticalInventory>>

\* sku B is stocked on the source only, sku A on both: the run sent one
\* update, for A
C29_Witness ==
    /\ "B" \in SkusOf(shopifyInventory) \ SkusOf(nauticalInventory)
    /\ SumLevels(shopifyInventory[2].levels) > 0
    /\ Len(CurrentUpdates) = 1
    /\ CurrentUpdates[1].sku = "A"
    /\ inventoryRun.result = "success"
    /\ inventoryRun.updatesApplied = 1

\* C30: at most one update is emitted per distinct sku, from the last
\* occurrence of the sku in each listing.
C30_OneUpdatePerSku ==
    /\ \A u, v \in 1..Len(CurrentUpdates) :
          CurrentUpdates[u].sku = CurrentUpdates[v].sku => u = v
    /\ \A u \in 1..Len(CurrentUpdates) :
          LET lastOnSource == Max({i \in 1..Len(shopifyInventory) :
                                      shopifyInventory[i].sku = CurrentUpdates[u].sku})
          IN  /\ CurrentUpdates[u].shopifyVariantId = shopifyInventory[lastOnSource].variantId
              /\ CurrentUpdates[u].nauticalVariantId =
                    MapGetBySku(nauticalInventory, CurrentUpdates[u].sku).variantId

ItemsWith(run, mutation) ==
    {j \in 1..Len(run.items) : run.items[j].mutation = mutation /\ run.items[j].ok}

\* C26: in a bulk pass, for each source order: no target order with its
\* externalId means a create; one whose status differs from the mapped source
\* status means an update addressed to that order's id; one whose status is
\* equal means no mutation.  Exactly one of created, updated, skipped goes
\* up by one for the order, and only when its processing ended well.
C26_BulkCreateUpdateOrSkip ==
    [][orderRun'.path = "bulk" =>
         /\ \A j \in 1..Len(orderRun'.items) :
              LET it == orderRun'.items[j]
                  before == OrdersWith(it.orderId)
                  mapped == mapShopifyStatusToNautical(it.status)
                  after == {i \in 1..Len(nauticalOrders') :
                               nauticalOrders'[i].externalId = it.orderId}
              IN  /\ it.mutation = "orderCreate" => before = {}
                  /\ it.mutation = "orderUpdate" =>
                        before # {} /\ nauticalOrders[Min(before)].status # mapped
                  /\ it.mutation = "none" /\ it.ok =>
                        before # {} /\ nauticalOrders[Min(before)].status = mapped
                  /\ it.mutation = "orderCreate" /\ it.ok =>
                        \E i \in after : /\ i > Len(nauticalOrders)
                                         /\ nauticalOrders'[i].status = mapped
                  /\ it.mutation = "orderUpdate" /\ it.ok =>
                        /\ after = before
                        /\ nauticalOrders'[Min(before)].id = nauticalOrders[Min(before)].id
                        /\ nauticalOrders'[Min(before)].status = mapped
                  /\ ~(it.mutation # "none" /\ it.ok) =>
                        /\ after = before
                        /\ \A i \in before : nauticalOrders'[i] = nauticalOrders[i]
         /\ orderRun'.results.created = Cardinality(ItemsWith(orderRun', "orderCreate"))
         /\ orderRun'.results.updated = Cardinality(ItemsWith(orderRun', "orderUpdate"))
         /\ orderRun'.results.skipped = Cardinality(ItemsWith(orderRun', "none"))
      ]_<<nauticalOrders, orderRun>>

\* one pass updated an order whose status had changed and created the other
C26_Witness ==
    /\ orderRun.path = "bulk"
    /\ orderRun.results.created = 1
    /\ orderRun.results.updated = 1
    /\ orderRun.results.skipped = 0
    /\ Len(nauticalOrders) = 2

C24_CreatedRecordsCarryExternalId ==
    /\ \A i \in 1..Len(nauticalProducts) : nauticalProducts[i].externalId \in SourceProductIds
    /\ webhookCall.mutation = "productCreate" /\ webhookCall.result = "success"
          => findProductByExternalId(nauticalProducts, webhookCall.productId) # NoProduct
    /\ importRun.result = "success" /\ importRun.imported = Len(shopifyCatalog)
          => \A k \in 1..Len(shopifyCatalog) :
                findProductByExternalId(nauticalProducts, shopifyCatalog[k].id) # NoProduct
    /\ \A i \in 1..Len(nauticalOrders) : nauticalOrders[i].externalId \in SourceOrderIds

\* the value the mapper owes a target attribute: that of the last entry for
\* it whose source field is present
RECURSIVE Owed(_, _, _)
Owed(product, mappings, attribute) ==
    IF mappings = <<>> THEN "absent"
    ELSE LET n == Len(mappings)
         IN  IF /\ mappings[n].nauticalAttribute = attribute
                /\ product[mappings[n].shopifyAttribute] # "undefined"
             THEN product[mappings[n].shopifyAttribute]
             ELSE Owed(product, SubSeq(mappings, 1, n - 1), attribute)

\* C21: the field mapper copies the value of every mapping entry whose source
\* field is present on the product, falsy values ('', 0, false) included,
\* and writes nothing for an entry whose source field is absent.
C21_PresentFieldsAreCopied ==
    evaluation.fn \in {"extractAttributes", "mappedAttributes"} /\ evaluation.done
        => \A a \in NauticalAttributes :
              evaluation.output[a] =
                  Owed(evaluation.input.product, evaluation.input.mappings, a)

\* C22: the order status mapping returns each of the seven listed statuses
\* under the same name and PENDING for every other value.
C22_UnlistedStatusMapsToPending ==
    evaluation.fn = "mapShopifyStatusToNautical" /\ evaluation.done
        => evaluation.output =
              (IF evaluation.input \in StatusMapKeys THEN evaluation.input ELSE "PENDING")

\* C25: fetchItemsFlow returns data with items (the fetched list) and message
\* whenever its fetch succeeds; when the fetch fails it logs the error and
\* throws it again, returning nothing.
C25_FetchItemsReturnsOrRethrows ==
    evaluation.fn = "fetchItemsFlow" /\ evaluation.done
        => IF evaluation.input.ok
           THEN /\ evaluation.output.outcome = "returned"
                /\ {"items", "message"} \subseteq evaluation.output.keys
                /\ evaluation.output.items = evaluation.input.data
           ELSE /\ evaluation.output.outcome = "thrown"
                /\ evaluation.output.thrown = evaluation.input.error
                /\ evaluation.output.errorLog # <<>>
                /\ evaluation.output.keys = {}

\* a fetch of two items has been answered
C25_Witness ==
    /\ evaluation.fn = "fetchItemsFlow"
    /\ evaluation.done
    /\ evaluation.input.ok
    /\ Len(evaluation.output.items) = 2
    /\ evaluation.output.message = <<"Successfully fetched", 2, "items from Shopify">>

\* C28: a quantity Inventory Sync writes to a target variant is never above
\* the stock the target holds for the variant when the write arrives, also
\* when somebody lowers that stock between the run's read and its write.
C28_WriteNeverOverstatesStock ==
    syncPending.written.quantity <= syncPending.written.held

\* C31: the error surfaced for a failed remote call keeps the class of its
\* cause: authentication for 401/403, validation for userErrors, retry
\* exhausted for transient failures on every attempt, also after withRetry
\* and handleApiError.
C31_SurfacedErrorKeepsClass ==
    /\ retryPc = "thrown" /\ maxRetries >= 1
          => handleApiError(thrown).class =
                (IF \A k \in 1..Len(attempts) : IsAuthenticationError(attempts[k].outcome)
                 THEN "Authentication error" ELSE "Retry exhausted")
    /\ webhookCall.response = "userErrors" => webhookCall.error = "Validation error"

\* C32: each failed attempt is reported to the caller's logger, with its
\* number and its error, once, and before the wait that follows it begins.
C32_FailedAttemptLoggedBeforeWait ==
    /\ \A k \in 1..Len(retryLog) :
          /\ retryLog[k].sink = "logError"
          /\ retryLog[k].attempt = k
          /\ retryLog[k].error = attempts[k].outcome
    /\ Len(waits) <= Len(retryLog)
    /\ retryPc \in {"sleep", "throw", "thrown"} \/ (retryPc = "call" /\ attempts # <<>>)
          => Len(retryLog) = Cardinality({k \in 1..Len(attempts) :
                                             attempts[k].outcome # Fulfilled})

\* C37: withRetry returns on the first attempt that succeeds and invokes the
\* operation no further; the operation is invoked at most maxRetries times;
\* a success on attempt k is returned although k - 1 attempts failed.
C37_FirstSuccessIsReturned ==
    /\ Len(attempts) <= maxRetries
    /\ \A k \in 1..Len(attempts) :
          attempts[k].outcome = Fulfilled
             => /\ k = Len(attempts)
                /\ retryPc = "returned"
                /\ thrown = NoError
    /\ retryPc = "returned" => attempts[Len(attempts)].outcome = Fulfilled

\* the third attempt succeeded after two that failed
C37_Witness ==
    /\ retryPc = "returned"
    /\ Len(attempts) = 3
    /\ attempts[1].outcome = AxiosError(500)
    /\ attempts[2].outcome = NetworkError
    /\ attempts[3].outcome = Fulfilled
    /\ Len(waits) = 2

\* C39: a call that exhausts its attempts has waited maxRetries - 1 times:
\* no wait follows the last failed attempt.
C39_NoWaitAfterLastAttempt ==
    retryPc \in {"throw", "thrown"} /\ maxRetries >= 1 => Len(waits) = maxRetries - 1

RECURSIVE NodesOf(_)
NodesOf(pages) == IF pages = <<>> THEN <<>> ELSE Head(pages).nodes \o NodesOf(Tail(pages))

C33_PagingIsInOrder ==
    paging.flow = "productImport"
        => /\ \A j \in 1..Len(paging.requested) :
                 IF j = 1 THEN paging.requested[j] = NullCursor
                 ELSE /\ paging.responses[j - 1].hasNextPage
                      /\ paging.requested[j] = paging.responses[j - 1].endCursor
           /\ paging.pc = "returned"
                 => /\ paging.responses # <<>>
                    /\ ~paging.responses[Len(paging.responses)].hasNextPage
                    /\ paging.responses = paging.pages
                    /\ paging.products = NodesOf(paging.pages)

\* C33: Product Import's fetch asks for the first page with a null cursor,
\* for each following page with the previous response's endCursor while
\* hasNextPage is true, stops at the first response with hasNextPage false
\* and returns all pages' products in order; it comes to an end.
C33_PaginatedFetch ==
    /\ []C33_PagingIsInOrder
    /\ <>(paging.pc \in {"returned", "thrown"})

\* three pages were fetched, the second of them empty
C33_Witness ==
    /\ paging.flow = "productImport"
    /\ paging.pc = "returned"
    /\ paging.requested = <<NullCursor, 1, 2>>
    /\ paging.pages[2].nodes = <<>>
    /\ Len(paging.products) = 4

\* C34: Inventory Sync and the bulk Order Sync pass read the whole source
\* listing: when a response says hasNextPage, the following pages are
\* fetched too, and what the fetch returns holds every item.
C34_EveryPageIsRead ==
    paging.flow \in {"inventorySync", "orderSync"} /\ paging.pc = "returned"
        => /\ ~paging.responses[Len(paging.responses)].hasNextPage
           /\ paging.products = NodesOf(paging.pages)

\* C35: with the mapping state absent or holding {mappings: L}, Product
\* Import and the Product Update Webhook apply the list L (the empty list
\* when absent) and carry out the transform of each product without error.
C35_MappingObjectIsApplied ==
    /\ importRun.mapping \in {"undefined", "{\"mappings\":[]}"}
          => importRun.error = "none" /\ importRun.result = "success"
    /\ webhookCall.mapping \in {"undefined", "{\"mappings\":[]}"}
          => webhookCall.error \notin {"SyntaxError", "TypeError"}

\* C36: after a products/delete delivery for a source id has been processed,
\* a products/create or products/update delivery for that id that arrives
\* later (the source made it before the delete: it reuses no id) leaves the
\* target without a product for the id.
C36_StaleEventDoesNotResurrect ==
    [][ /\ webhookCall.topic = "products/delete"
        /\ webhookCall.result = "success"
        /\ webhookCall'.topic \in {"products/create", "products/update"}
        /\ webhookCall'.productId = webhookCall.productId
        => \A i \in 1..Len(nauticalProducts') :
              nauticalProducts'[i].externalId # webhookCall.productId
      ]_<<nauticalProducts, webhookCall>>

\* C38: a productCreate sent under withRetry leaves at most one target
\* product for its source product, also when the target applied an attempt
\* whose response was lost and the attempt was sent again.
C38_RetriedCreateMakesOneProduct ==
    attempts # <<>> =>
        Cardinality({i \in 1..Len(nauticalProducts) :
                        nauticalProducts[i].externalId = shopifyCatalog[1].id}) <= 1

====
